---- MODULE Spec2Model ----
(***************************************************************************)
(* Model of git-commit.py (cmai): the run pipeline of GitCommitAI          *)
(*   run -> get_git_changes -> make_api_request -> extract_commit_message  *)
(*       -> execute_commit                                                 *)
(* together with the pure functions it is built from (model tier, change   *)
(* hints, template lookup, prompt construction, JSON response decoding).   *)
(*                                                                         *)
(* Text is a sequence of one-character strings, so that len(), slicing,    *)
(* substring containment, lower(), strip(), replace() and str.format() are *)
(* computed the way the Python code computes them.                         *)
(***************************************************************************)
EXTENDS Integers, Sequences, FiniteSets, TLC

VARIABLES
    provider,          \* self.provider
    model,             \* self.model
    base_url,          \* self.base_url
    api_key,           \* the stored key config.get_api_key() returns
    push,              \* self.push
    stage_changes,     \* self.stage_changes
    dry_run,           \* self.dry_run
    staged,            \* stdout of `git diff --cached --name-status`
    git_diff,          \* stdout of `git diff --cached`
    git_stat,          \* stdout of `git diff --cached --stat`
    prompts,           \* the three template directories: location -> file -> content
    reply,             \* what urlopen will do with this run's request
    pc,                \* the step of run() that executes next
    changes,           \* run(): changes
    diff_content,      \* run(): diff_content
    use_diff_content,  \* run(): use_diff_content
    detailed_changes,  \* run(): detailed_changes
    model_tier,        \* build_ollama_request(): model_tier
    instructions,      \* build_ollama_request(): instructions, as handed to format()
    response,          \* run(): response, the body the transport returned
    commit_message,    \* run(): commit_message
    requests,          \* every request handed to urllib.request.urlopen, in order
    git_log,           \* every git command executed, in order
    output,            \* every message printed, in order
    raised,            \* the exception that left run() uncaught, or NoException
    config_files,      \* Config: config.json and providers/<name>.json on disk
    called             \* the last call of a Config method (or setup_provider) and its outcome

vars == << provider, model, base_url, api_key, push, stage_changes, dry_run,
           staged, git_diff, git_stat, prompts, reply, pc, changes, diff_content,
           use_diff_content, detailed_changes, model_tier, instructions, response,
           commit_message, requests, git_log, output, raised, config_files, called >>

\* what a run of the pipeline leaves alone
config_vars == << config_files, called >>

\* what setup_provider and the Config methods leave alone, self.provider,
\* self.model and self.base_url aside
run_frame == << api_key, push, stage_changes, dry_run, staged, git_diff, git_stat, prompts,
               reply, pc, changes, diff_content, use_diff_content, detailed_changes,
               model_tier, instructions, response, commit_message, requests, git_log,
               output, raised >>

(***************************************************************************)
(* Text primitives (Python str)                                            *)
(***************************************************************************)

UpperChars == <<"A","B","C","D","E","F","G","H","I","J","K","L","M","N","O","P","Q","R","S","T","U","V","W","X","Y","Z">>

LowerChars == <<"a","b","c","d","e","f","g","h","i","j","k","l","m","n","o","p","q","r","s","t","u","v","w","x","y","z">>

\* str.lower() on one character
LowerChar(c) ==
    IF \E i \in 1..26 : UpperChars[i] = c
    THEN LowerChars[CHOOSE i \in 1..26 : UpperChars[i] = c]
    ELSE c

\* str.lower()
Lower(s) == SubSeq([i \in 1..Len(s) |-> LowerChar(s[i])], 1, Len(s))

\* m occurs in s at offset i (0-based)
MatchAt(s, m, i) ==
    /\ i + Len(m) <= Len(s)
    /\ \A j \in 1..Len(m) : s[i + j] = m[j]

\* the Python expression `m in s`
Contains(s, m) == \E i \in 0..(Len(s) - Len(m)) : MatchAt(s, m, i)

\* any(m in s for m in ms)
ContainsAny(s, ms) == \E k \in 1..Len(ms) : Contains(s, ms[k])

\* the characters str.strip() removes
Whitespace == {" ", "\t", "\n", "\r", "\f"}

RECURSIVE LStrip(_)
LStrip(s) ==
    IF s # <<>> /\ Head(s) \in Whitespace THEN LStrip(Tail(s)) ELSE s

RECURSIVE RStrip(_)
RStrip(s) ==
    IF s # <<>> /\ s[Len(s)] \in Whitespace
    THEN RStrip(SubSeq(s, 1, Len(s) - 1))
    ELSE s

\* str.strip()
Strip(s) == RStrip(LStrip(s))

\* s[:n]
Prefix(s, n) == SubSeq(s, 1, IF n < Len(s) THEN n ELSE Len(s))

\* str.replace(old, new), leftmost non-overlapping occurrences, old non-empty
RECURSIVE ReplaceFrom(_, _, _, _)
ReplaceFrom(s, old, new, i) ==
    IF i >= Len(s) THEN <<>>
    ELSE IF MatchAt(s, old, i)
         THEN new \o ReplaceFrom(s, old, new, i + Len(old))
         ELSE <<s[i + 1]>> \o ReplaceFrom(s, old, new, i + 1)

Replace(s, old, new) == ReplaceFrom(s, old, new, 0)

\* "\n".join(parts)
RECURSIVE JoinLines(_)
JoinLines(parts) ==
    IF parts = <<>> THEN <<>>
    ELSE IF Len(parts) = 1 THEN parts[1]
    ELSE parts[1] \o <<"\n">> \o JoinLines(Tail(parts))

\* str.split('\n')
RECURSIVE SplitLinesFrom(_, _, _)
SplitLinesFrom(s, i, cur) ==
    IF i > Len(s) THEN <<cur>>
    ELSE IF s[i] = "\n" THEN <<cur>> \o SplitLinesFrom(s, i + 1, <<>>)
    ELSE SplitLinesFrom(s, i + 1, Append(cur, s[i]))

SplitLines(s) == SplitLinesFrom(s, 1, <<>>)

\* the decimal digits of a natural number, as str(n) / f"{n}" writes them
Digits == <<"0","1","2","3","4","5","6","7","8","9">>

RECURSIVE IntToText(_)
IntToText(n) ==
    IF n < 10 THEN <<Digits[n + 1]>>
    ELSE IntToText(n \div 10) \o <<Digits[(n % 10) + 1]>>

(***************************************************************************)
(* Model tier: GitCommitAI.get_model_tier                                  *)
(***************************************************************************)

LargeMarkers == << <<"3","2","b">>, <<"3","0","b">>, <<"7","0","b">>, <<"7","2","b">> >>

SmallMarkers == << <<"1",".","7","b">>, <<"1","b">>, <<"2","b">> >>

MediumMarkers == << <<"3","b">>, <<"4","b">>, <<"7","b">>, <<"8","b">> >>

\* get_model_tier, were the small markers tried before the large ones
GetModelTierSmallFirst(m) ==
    LET model_lower == Lower(m) IN
    IF ContainsAny(model_lower, SmallMarkers) THEN "small"
    ELSE IF ContainsAny(model_lower, LargeMarkers) THEN "large"
    ELSE "medium"

\* get_model_tier, were the name not lower-cased first
GetModelTierCaseSensitive(m) ==
    IF ContainsAny(m, LargeMarkers) THEN "large"
    ELSE IF ContainsAny(m, SmallMarkers) THEN "small"
    ELSE "medium"

GetModelTier(m) ==
    LET model_lower == Lower(m) IN
    IF ContainsAny(model_lower, LargeMarkers) THEN "large"
    ELSE IF ContainsAny(model_lower, SmallMarkers) THEN "small"
    ELSE IF ContainsAny(model_lower, MediumMarkers) THEN "medium"
    ELSE "medium"

(***************************************************************************)
(* Change Classifier: detect_change_context and its four detectors         *)
(***************************************************************************)

\* position i (1-based) starts a line: what ^ matches under re.MULTILINE
LineStart(s, i) == i = 1 \/ s[i - 1] = "\n"

\* position after i (1-based) ends a line: what $ matches under re.MULTILINE
LineEnd(s, i) == i = Len(s) \/ s[i + 1] = "\n"

AllWhitespace(s, a, b) == \A k \in a..b : s[k] \in Whitespace

NoNewline(s, a, b) == \A k \in a..b : s[k] # "\n"

RegexOps == {"<", ">", "=", "!"}

\* the arrow of the source's first pattern, as the source file spells it
Arrow == <<"U+00E2","U+2020","U+2019">>

\* re.search(r'[<>=!]\s*<arrow>\s*[<>=!]\s+', diff)
SpacingArrowPattern(s) ==
    \E i \in 1..Len(s) :
        /\ s[i] \in RegexOps
        /\ \E j \in (i + 1)..Len(s) :
              /\ MatchAt(s, Arrow, j - 1)
              /\ AllWhitespace(s, i + 1, j - 1)
              /\ \E k \in (j + Len(Arrow))..(Len(s) - 1) :
                    /\ s[k] \in RegexOps
                    /\ s[k + 1] \in Whitespace
                    /\ AllWhitespace(s, j + Len(Arrow), k - 1)

\* re.search(r'^\+.*\s+$', diff, re.MULTILINE): a line that starts with "+",
\* then characters other than newline, then one or more whitespace characters
\* (newlines included) up to the end of some line
TrailingSpacePattern(s) ==
    \E i \in 1..Len(s) :
        /\ s[i] = "+"
        /\ LineStart(s, i)
        /\ \E a \in (i + 1)..Len(s) :
              /\ s[a] \in Whitespace
              /\ NoNewline(s, i + 1, a - 1)
              /\ \E b \in a..Len(s) :
                    /\ AllWhitespace(s, a, b)
                    /\ LineEnd(s, b)

\* re.search(r'^\-\s*\+\s*', diff, re.MULTILINE)
IndentationPattern(s) ==
    \E i \in 1..Len(s) :
        /\ s[i] = "-"
        /\ LineStart(s, i)
        /\ \E j \in (i + 1)..Len(s) :
              /\ s[j] = "+"
              /\ AllWhitespace(s, i + 1, j - 1)

FormattingIndicators ==
    << <<" ","<"," ">>, <<" ",">"," ">>, <<" ","="," ">>, <<" ","+"," ">>, <<" ","-"," ">>,
       <<"s","p","a","c","i","n","g">>, <<"i","n","d","e","n","t","a","t","i","o","n">>, <<"f","o","r","m","a","t">> >>

\* the detector, were the indicators compared with the diff as written
IsFormattingChangeCaseSensitive(diff) ==
    \/ SpacingArrowPattern(diff)
    \/ TrailingSpacePattern(diff)
    \/ IndentationPattern(diff)
    \/ ContainsAny(diff, FormattingIndicators)

IsFormattingChange(diff) ==
    \/ SpacingArrowPattern(diff)
    \/ TrailingSpacePattern(diff)
    \/ IndentationPattern(diff)
    \/ ContainsAny(Lower(diff), FormattingIndicators)

DepFiles ==
    << <<"r","e","q","u","i","r","e","m","e","n","t","s",".","t","x","t">>, <<"p","a","c","k","a","g","e",".","j","s","o","n">>, <<"p","a","c","k","a","g","e","-","l","o","c","k",".","j","s","o","n">>,
       <<"y","a","r","n",".","l","o","c","k">>, <<"P","i","p","f","i","l","e">>, <<"P","i","p","f","i","l","e",".","l","o","c","k">>, <<"s","e","t","u","p",".","p","y">>,
       <<"p","y","p","r","o","j","e","c","t",".","t","o","m","l">>, <<"C","a","r","g","o",".","t","o","m","l">>, <<"C","a","r","g","o",".","l","o","c","k">>,
       <<".","y","m","l">>, <<".","y","a","m","l">>, <<"d","o","c","k","e","r">>, <<"D","o","c","k","e","r","f","i","l","e">> >>

\* the detector, were every marker required instead of any
IsDependencyChangeAll(chg) ==
    LET changes_lower == Lower(chg) IN
    \A k \in 1..Len(DepFiles) : Contains(changes_lower, DepFiles[k])

IsDependencyChange(chg) ==
    LET changes_lower == Lower(chg) IN ContainsAny(changes_lower, DepFiles)

PerfKeywords ==
    << <<"o","p","t","i","m","i","z","e">>, <<"o","p","t","i","m","i","z","a","t","i","o","n">>, <<"c","a","c","h","e">>, <<"c","a","c","h","i","n","g">>, <<"p","e","r","f","o","r","m","a","n","c","e">>,
       <<"s","p","e","e","d">>, <<"f","a","s","t","e","r">>, <<"e","f","f","i","c","i","e","n","t">>, <<"i","n","e","f","f","i","c","i","e","n","t">>,
       <<"q","u","e","r","y"," ","p","e","r","f","o","r","m","a","n","c","e">> >>

IsPerformanceChange(diff) ==
    LET diff_lower == Lower(diff) IN
    \/ Contains(diff_lower, <<"f","o","r"," ","p","o","s","t"," ","i","n">>) /\ Contains(diff_lower, <<"a","p","p","e","n","d">>)
    \/ Contains(diff_lower, <<"f","o","r"," ","i","t","e","m"," ","i","n">>) /\ Contains(diff_lower, <<"l","i","s","t","(">>)
    \/ Contains(diff_lower, <<"p","o","s","t","s"," ","="," ","[","]">>) /\ Contains(diff_lower, <<"r","e","t","u","r","n"," ","l","i","s","t","(">>)
    \/ Contains(diff_lower, <<"s","e","l","e","c","t","_","r","e","l","a","t","e","d">>)
    \/ Contains(diff_lower, <<"p","r","e","f","e","t","c","h","_","r","e","l","a","t","e","d">>)
    \/ ContainsAny(diff_lower, PerfKeywords)

RefactorKeywords ==
    << <<"r","e","s","t","r","u","c","t","u","r","e">>, <<"r","e","f","a","c","t","o","r">>, <<"r","e","o","r","g","a","n","i","z","e">>, <<"s","p","l","i","t">>,
       <<"a","r","c","h","i","t","e","c","t","u","r","e">>, <<"m","o","d","u","l","a","r">>, <<"s","e","p","a","r","a","t","e">> >>

\* len([line for line in changes.split('\n') if line.strip()])
FileCount(chg) ==
    LET lines == SplitLines(chg) IN
    Cardinality({k \in 1..Len(lines) : Strip(lines[k]) # <<>>})

LargeRefactorFiles == 3

\* the detector, were more than three files needed
IsLargeRefactorOverThree(chg) ==
    LET file_count == FileCount(chg)
        has_refactor_keywords == ContainsAny(Lower(chg), RefactorKeywords)
    IN file_count > LargeRefactorFiles \/ has_refactor_keywords

IsLargeRefactor(chg) ==
    LET file_count == FileCount(chg)
        has_refactor_keywords == ContainsAny(Lower(chg), RefactorKeywords)
    IN file_count >= LargeRefactorFiles \/ has_refactor_keywords

FormattingHint ==
    <<"U+00F0","U+0178","U+017D","U+00A8"," ","S","p","a","c","i","n","g","/","f","o","r","m","a","t","t","i","n","g"," ","d","e","t","e","c","t","e","d"," ","U+00E2","U+2020","U+2019"," ","u","s","e"," ","'","s","t","y","l","e","'"," ","N","O","T"," ","'","f","i","x","'">>

DependencyHint ==
    <<"U+00F0","U+0178","U+00A7","U+00B9"," ","D","e","p","e","n","d","e","n","c","i","e","s"," ","d","e","t","e","c","t","e","d"," ","U+00E2","U+2020","U+2019"," ","u","s","e"," ","'","c","h","o","r","e","'"," ","N","O","T"," ","'","f","i","x","'">>

PerformanceHint ==
    <<"U+00E2","U+0161","U+00A1"," ","P","e","r","f","o","r","m","a","n","c","e"," ","o","p","t","i","m","i","z","a","t","i","o","n"," ","U+00E2","U+2020","U+2019"," ","u","s","e"," ","'","p","e","r","f","'"," ","N","O","T"," ","'","r","e","f","a","c","t","o","r","'">>

LargeRefactorHint ==
    <<"U+00F0","U+0178","U+2014","U+00EF","U+00B8"," ","M","u","l","t","i","p","l","e"," ","f","i","l","e","s"," ","c","h","a","n","g","e","d"," ","U+00E2","U+2020","U+2019"," ","l","i","k","e","l","y"," ","'","r","e","f","a","c","t","o","r","'"," ","N","O","T"," ","'","f","i","x","'">>

\* the list `hints` of detect_change_context, in the order it is appended
HintList(chg, diff) ==
    (IF IsFormattingChange(diff) THEN <<FormattingHint>> ELSE <<>>)
    \o (IF IsDependencyChange(chg) THEN <<DependencyHint>> ELSE <<>>)
    \o (IF IsPerformanceChange(diff) THEN <<PerformanceHint>> ELSE <<>>)
    \o (IF IsLargeRefactor(chg) THEN <<LargeRefactorHint>> ELSE <<>>)

DetectChangeContext(chg, diff) == JoinLines(HintList(chg, diff))

(***************************************************************************)
(* Template Store: GitCommitAI.load_prompt_template                        *)
(***************************************************************************)

\* a file that does not exist in a directory
Absent == [exists |-> FALSE, readable |-> FALSE, text |-> <<>>]

\* a file that exists and whose read_text() raises
Unreadable == [exists |-> TRUE, readable |-> FALSE, text |-> <<>>]

\* a file that exists, with its content
File(text) == [exists |-> TRUE, readable |-> TRUE, text |-> text]

\* the directories in the order they are tried: next to the script, the user
\* configuration directory, the installed location
Locations == <<"script_dir", "config_dir", "installed_dir">>

Exists(store, loc, filename) == store[loc][filename].exists

\* the search, were the directories tried from the last to the first
LastLocation(store, filename) ==
    IF \E k \in 1..Len(Locations) : Exists(store, Locations[k], filename)
    THEN CHOOSE k \in 1..Len(Locations) :
            /\ Exists(store, Locations[k], filename)
            /\ \A h \in (k + 1)..Len(Locations) : ~Exists(store, Locations[h], filename)
    ELSE 0

\* the first directory, in order, in which the file exists (0: none)
FirstLocation(store, filename) ==
    IF \E k \in 1..Len(Locations) : Exists(store, Locations[k], filename)
    THEN CHOOSE k \in 1..Len(Locations) :
            /\ Exists(store, Locations[k], filename)
            /\ \A h \in 1..(k - 1) : ~Exists(store, Locations[h], filename)
    ELSE 0

\* the loader, were a built-in text to stand in for a file found nowhere
LoadPromptTemplateOrBuiltIn(store, filename) ==
    LET k == FirstLocation(store, filename) IN
    IF k = 0 THEN <<"W","r","i","t","e"," ","a"," ","c","o","m","m","i","t"," ","m","e","s","s","a","g","e","."," ","{","c","h","a","n","g","e","s","}">>
    ELSE IF ~store[Locations[k]][filename].readable THEN <<>>
    ELSE Strip(store[Locations[k]][filename].text)

LoadPromptTemplate(store, filename) ==
    LET k == FirstLocation(store, filename) IN
    IF k = 0 THEN <<>>
    ELSE IF ~store[Locations[k]][filename].readable THEN <<>>
    ELSE Strip(store[Locations[k]][filename].text)

(***************************************************************************)
(* str.format with keyword arguments                                       *)
(***************************************************************************)

Ok(v) == [ok |-> TRUE, val |-> v]

Raise(type, arg) == [ok |-> FALSE, val |-> [type |-> type, arg |-> arg]]

\* the first index >= i of character c in s (0: none)
IndexFrom(s, c, i) ==
    IF \E j \in i..Len(s) : s[j] = c
    THEN CHOOSE j \in i..Len(s) : s[j] = c /\ \A k \in i..(j - 1) : s[k] # c
    ELSE 0

HasKey(kwargs, name) == \E k \in 1..Len(kwargs) : kwargs[k][1] = name

Lookup(kwargs, name) == kwargs[CHOOSE k \in 1..Len(kwargs) : kwargs[k][1] = name][2]

\* template[i..].format(**kwargs): "{{" and "}}" are literal braces, "{name}" is
\* replaced by the argument (which is not scanned again), an unknown name is a
\* KeyError, "{}" an IndexError, a lone brace a ValueError
RECURSIVE FormatFrom(_, _, _)
FormatFrom(t, i, kwargs) ==
    IF i > Len(t) THEN Ok(<<>>)
    ELSE
    LET twin == i < Len(t) /\ t[i + 1] = t[i]
        close == IndexFrom(t, "}", i + 1)
        name == SubSeq(t, i + 1, close - 1)
        step ==
            IF t[i] \in {"{", "}"} /\ twin THEN [out |-> Ok(<<t[i]>>), next |-> i + 2]
            ELSE IF t[i] = "}" THEN [out |-> Raise("ValueError", "brace"), next |-> i]
            ELSE IF t[i] = "{" THEN
                IF close = 0 THEN [out |-> Raise("ValueError", "brace"), next |-> i]
                ELSE IF name = <<>> THEN [out |-> Raise("IndexError", "positional"), next |-> i]
                ELSE IF ~HasKey(kwargs, name) THEN [out |-> Raise("KeyError", "placeholder"), next |-> i]
                ELSE [out |-> Ok(Lookup(kwargs, name)), next |-> close + 1]
            ELSE [out |-> Ok(<<t[i]>>), next |-> i + 1]
    IN  IF ~step.out.ok THEN step.out
        ELSE LET rest == FormatFrom(t, step.next, kwargs) IN
             IF rest.ok THEN Ok(step.out.val \o rest.val) ELSE rest

Format(t, kwargs) == FormatFrom(t, 1, kwargs)

(***************************************************************************)
(* Prompt Builder: build_openrouter_request, build_ollama_request          *)
(***************************************************************************)

DiffSection(diff, use_diff, stats) ==
    IF use_diff
    THEN <<"#","#"," ","D","i","f","f",":","\n","<","d","i","f","f",">","\n">> \o diff \o <<"\n","<","/","d","i","f","f",">">>
    ELSE <<"#","#"," ","F","i","l","e"," ","s","t","a","t","i","s","t","i","c","s",":","\n","<","f","i","l","e","_","s","t","a","t","s",">","\n">> \o stats
         \o <<"\n","<","/","f","i","l","e","_","s","t","a","t","s",">","\n","\n","N","o","t","e",":"," ","D","i","f","f"," ","c","o","n","t","e","n","t"," ","w","a","s"," ","t","o","o"," ","l","a","r","g","e"," ","t","o"," ","i","n","c","l","u","d","e","."," ","P","l","e","a","s","e"," ","g","e","n","e","r","a","t","e"," ","c","o","m","m","i","t"," ","m","e","s","s","a","g","e"," ","b","a","s","e","d"," ","o","n"," ","f","i","l","e"," ","c","h","a","n","g","e","s"," ","a","n","d"," ","s","t","a","t","i","s","t","i","c","s"," ","o","n","l","y",".">>

MissingTemplate(filename) == Raise("FileNotFoundError", filename)

\* the chat builder, were the tier template and the hints put before the
\* system message as they are put into the ollama prompt
BuildOpenrouterRequestWithTier(store, mdl, chg, diff, use_diff, stats) ==
    LET system_message == LoadPromptTemplate(store, "openrouter_system.txt")
        user_template == LoadPromptTemplate(store, "openrouter_user.txt")
        diff_section == DiffSection(diff, use_diff, stats)
        user_content == Format(user_template,
                               << <<<<"c","h","a","n","g","e","s">>, chg>>, <<<<"d","i","f","f","_","s","e","c","t","i","o","n">>, diff_section>> >>)
        tier == GetModelTier(mdl)
        tier_template == LoadPromptTemplate(store,
                             CASE tier = "small" -> "small_model.txt"
                               [] tier = "medium" -> "medium_model.txt"
                               [] tier = "large" -> "large_model.txt")
        smart_hints == DetectChangeContext(chg, diff)
    IN  IF system_message = <<>> THEN MissingTemplate("openrouter_system.txt")
        ELSE IF user_template = <<>> THEN MissingTemplate("openrouter_user.txt")
        ELSE IF ~user_content.ok THEN user_content
        ELSE Ok([model |-> mdl,
                 stream |-> FALSE,
                 messages |-> << [role |-> "system",
                                  content |-> tier_template \o smart_hints
                                                 \o system_message],
                                 [role |-> "user", content |-> user_content.val] >>])

BuildOpenrouterRequest(store, mdl, chg, diff, use_diff, stats) ==
    LET system_message == LoadPromptTemplate(store, "openrouter_system.txt")
        user_template == LoadPromptTemplate(store, "openrouter_user.txt")
        diff_section == DiffSection(diff, use_diff, stats)
        user_content == Format(user_template,
                               << <<<<"c","h","a","n","g","e","s">>, chg>>, <<<<"d","i","f","f","_","s","e","c","t","i","o","n">>, diff_section>> >>)
    IN  IF system_message = <<>> THEN MissingTemplate("openrouter_system.txt")
        ELSE IF user_template = <<>> THEN MissingTemplate("openrouter_user.txt")
        ELSE IF ~user_content.ok THEN user_content
        ELSE Ok([model |-> mdl,
                 stream |-> FALSE,
                 messages |-> << [role |-> "system", content |-> system_message],
                                 [role |-> "user", content |-> user_content.val] >>])

\* f"{model_tier}_model.txt"
TierFile(tier) ==
    CASE tier = "small" -> "small_model.txt"
      [] tier = "medium" -> "medium_model.txt"
      [] tier = "large" -> "large_model.txt"

HintsHeader == <<"\n","\n","U+00F0","U+0178","U+017D","U+00AF"," ","S","M","A","R","T"," ","C","O","N","T","E","X","T"," ","H","I","N","T","S",":","\n">>

\* the instructions, were the hints heading added whether or not there are hints
InstructionsWithHeading(store, tier, tier_template, chg, diff) ==
    IF tier \in {"medium", "small"}
    THEN LET smart_hints == DetectChangeContext(chg, diff)
             with_hints == tier_template \o HintsHeader \o smart_hints
             final_check_template == LoadPromptTemplate(store, "final_check.txt")
         IN  IF final_check_template # <<>>
             THEN with_hints \o <<"\n","\n">> \o final_check_template
             ELSE with_hints
    ELSE tier_template

\* the instructions, were the hints and the final check added for every tier
InstructionsForAnyTier(store, tier, tier_template, chg, diff) ==
    LET smart_hints == DetectChangeContext(chg, diff)
        with_hints == IF smart_hints # <<>>
                      THEN tier_template \o HintsHeader \o smart_hints
                      ELSE tier_template
        final_check_template == LoadPromptTemplate(store, "final_check.txt")
    IN  IF final_check_template # <<>>
        THEN with_hints \o <<"\n","\n">> \o final_check_template
        ELSE with_hints

\* the value of `instructions` when it is handed to format(), given the tier
\* template that was loaded
Instructions(store, tier, tier_template, chg, diff) ==
    IF tier \in {"medium", "small"}
    THEN LET smart_hints == DetectChangeContext(chg, diff)
             with_hints == IF smart_hints # <<>>
                           THEN tier_template \o HintsHeader \o smart_hints
                           ELSE tier_template
             final_check_template == LoadPromptTemplate(store, "final_check.txt")
         IN  IF final_check_template # <<>>
             THEN with_hints \o <<"\n","\n">> \o final_check_template
             ELSE with_hints
    ELSE tier_template

\* `instructions` when build_ollama_request returns or raises: the loaded tier
\* template, extended unless the template is missing (the function raises first)
OllamaInstructions(store, mdl, chg, diff) ==
    LET tier == GetModelTier(mdl)
        tier_template == LoadPromptTemplate(store, TierFile(tier))
    IN  IF tier_template = <<>> THEN <<>>
        ELSE Instructions(store, tier, tier_template, chg, diff)

BuildOllamaRequest(store, mdl, chg, diff, use_diff, stats) ==
    LET tier == GetModelTier(mdl)
        tier_template == LoadPromptTemplate(store, TierFile(tier))
        instr == OllamaInstructions(store, mdl, chg, diff)
        base_template == LoadPromptTemplate(store, "ollama_base.txt")
        diff_section == DiffSection(diff, use_diff, stats)
        prompt == Format(base_template,
                         << <<<<"c","h","a","n","g","e","s">>, chg>>, <<<<"d","i","f","f","_","s","e","c","t","i","o","n">>, diff_section>>,
                            <<<<"i","n","s","t","r","u","c","t","i","o","n","s">>, instr>>, <<<<"f","i","n","a","l","_","c","h","e","c","k">>, <<>> >> >>)
    IN  IF tier_template = <<>> THEN MissingTemplate(TierFile(tier))
        ELSE IF base_template = <<>> THEN MissingTemplate("ollama_base.txt")
        ELSE IF ~prompt.ok THEN prompt
        ELSE Ok([model |-> mdl,
                 prompt |-> prompt.val,
                 stream |-> FALSE,
                 think |-> FALSE,
                 options |-> [temperature |-> "0.2", top_p |-> "0.8"]])

(***************************************************************************)
(* json.loads: the decoder of Python's json module, on text                *)
(*                                                                         *)
(* A decoded value is [t |-> type, v |-> payload]: "object" (a sequence of *)
(* <<key, value>> members in document order), "array" (a sequence of       *)
(* values), "string" (text), "number" (the literal's text), "true",        *)
(* "false", "null".                                                        *)
(***************************************************************************)

JsonWhitespace == {" ", "\t", "\n", "\r"}

DigitChars == {"0", "1", "2", "3", "4", "5", "6", "7", "8", "9"}

\* the first index >= i that holds no JSON whitespace (Len(s) + 1: none)
SkipWs(s, i) ==
    IF \E j \in i..Len(s) : s[j] \notin JsonWhitespace
    THEN CHOOSE j \in i..Len(s) :
            s[j] \notin JsonWhitespace /\ \A k \in i..(j - 1) : s[k] \in JsonWhitespace
    ELSE Len(s) + 1

\* the first index >= i that holds no digit (Len(s) + 1: none)
DigitsEnd(s, i) ==
    IF \E j \in i..Len(s) : s[j] \notin DigitChars
    THEN CHOOSE j \in i..Len(s) :
            s[j] \notin DigitChars /\ \A k \in i..(j - 1) : s[k] \in DigitChars
    ELSE Len(s) + 1

CharAt(s, i) == IF i >= 1 /\ i <= Len(s) THEN s[i] ELSE "EOF"

JsonFail == [ok |-> FALSE, val |-> [t |-> "null", v |-> <<>>], next |-> 0]

JsonOk(t, v, next) == [ok |-> TRUE, val |-> [t |-> t, v |-> v], next |-> next]

\* NUMBER_RE of json.scanner: (-?(?:0|[1-9]\d*))(\.\d+)?([eE][-+]?\d+)?
ParseNumber(s, i) ==
    LET d == IF CharAt(s, i) = "-" THEN i + 1 ELSE i
        int_end == IF CharAt(s, d) = "0" THEN d + 1
                   ELSE IF CharAt(s, d) \in DigitChars THEN DigitsEnd(s, d)
                   ELSE 0
        frac_end == IF CharAt(s, int_end) = "." /\ CharAt(s, int_end + 1) \in DigitChars
                    THEN DigitsEnd(s, int_end + 1)
                    ELSE int_end
        exp_at == IF CharAt(s, frac_end + 1) \in {"+", "-"} THEN frac_end + 2 ELSE frac_end + 1
        exp_end == IF CharAt(s, frac_end) \in {"e", "E"} /\ CharAt(s, exp_at) \in DigitChars
                   THEN DigitsEnd(s, exp_at)
                   ELSE frac_end
    IN  IF int_end = 0 THEN JsonFail
        ELSE JsonOk("number", SubSeq(s, i, exp_end - 1), exp_end)

\* the literals the scanner accepts besides numbers; NaN, Infinity and -Infinity
\* are decoded to floats although they are not JSON
ParseLiteral(s, i) ==
    IF MatchAt(s, <<"n","u","l","l">>, i - 1) THEN JsonOk("null", <<>>, i + 4)
    ELSE IF MatchAt(s, <<"t","r","u","e">>, i - 1) THEN JsonOk("true", <<>>, i + 4)
    ELSE IF MatchAt(s, <<"f","a","l","s","e">>, i - 1) THEN JsonOk("false", <<>>, i + 5)
    ELSE IF MatchAt(s, <<"N","a","N">>, i - 1) THEN JsonOk("number", <<"N","a","N">>, i + 3)
    ELSE IF MatchAt(s, <<"I","n","f","i","n","i","t","y">>, i - 1) THEN JsonOk("number", <<"I","n","f","i","n","i","t","y">>, i + 8)
    ELSE IF MatchAt(s, <<"-","I","n","f","i","n","i","t","y">>, i - 1) THEN JsonOk("number", <<"-","I","n","f","i","n","i","t","y">>, i + 9)
    ELSE ParseNumber(s, i)

HexChars == DigitChars \cup {"a", "b", "c", "d", "e", "f", "A", "B", "C", "D", "E", "F"}

\* the character a backslash escape stands for ("": not an escape)
Unescape(c) ==
    CASE c = "\"" -> "\""
      [] c = "\\" -> "\\"
      [] c = "/" -> "/"
      [] c = "b" -> "U+0008"
      [] c = "f" -> "\f"
      [] c = "n" -> "\n"
      [] c = "r" -> "\r"
      [] c = "t" -> "\t"
      [] OTHER -> ""

\* the character a \uXXXX escape stands for (one character, whichever it names)
EscapedCodePoint == "U+XXXX"

ControlChars == {"\t", "\n", "\r", "\f", "U+0008"}

\* py_scanstring: the text of a string literal whose opening quote is before i
RECURSIVE ParseStringBody(_, _, _)
ParseStringBody(s, i, acc) ==
    LET c == CharAt(s, i) IN
    IF c = "EOF" THEN JsonFail
    ELSE IF c = "\"" THEN JsonOk("string", acc, i + 1)
    ELSE IF c \in ControlChars THEN JsonFail
    ELSE IF c # "\\" THEN ParseStringBody(s, i + 1, Append(acc, c))
    ELSE IF CharAt(s, i + 1) = "u"
         THEN IF \A k \in 2..5 : CharAt(s, i + k) \in HexChars
              THEN ParseStringBody(s, i + 6, Append(acc, EscapedCodePoint))
              ELSE JsonFail
    ELSE IF Unescape(CharAt(s, i + 1)) = "" THEN JsonFail
    ELSE ParseStringBody(s, i + 2, Append(acc, Unescape(CharAt(s, i + 1))))

\* a string, number or literal that starts at index i
ParseScalar(s, i) ==
    IF CharAt(s, i) = "\"" THEN ParseStringBody(s, i + 1, <<>>)
    ELSE IF CharAt(s, i) = "EOF" THEN JsonFail
    ELSE ParseLiteral(s, i)

\* The decoder's position: the index it reads next, what it expects there
\* ("value", "key", "colon", "after" a member or element, "end" of the text;
\* "done" and "fail" are final), the open containers (innermost last) and, at
\* "end" and "done", the decoded value.
Decoder(mode, i, stack, val) == [mode |-> mode, i |-> i, stack |-> stack, val |-> val]

DecoderFail == Decoder("fail", 0, <<>>, JsonFail.val)

\* an open container
Frame(t, v, key) == [t |-> t, v |-> v, key |-> key]

\* a value that ends before index n has been decoded: it is the document, or
\* the next element or member of the innermost open container
Complete(stack, val, n) ==
    IF stack = <<>> THEN Decoder("end", n, <<>>, val)
    ELSE LET top == stack[Len(stack)]
             grown == IF top.t = "array" THEN Append(top.v, val)
                      ELSE Append(top.v, <<top.key, val>>)
         IN  Decoder("after", n,
                     [stack EXCEPT ![Len(stack)] = Frame(top.t, grown, <<>>)],
                     JsonFail.val)

\* one step of JSONDecoder.raw_decode (JSONObject, JSONArray, scan_once)
DecodeStep(s, st) ==
    LET i == SkipWs(s, st.i)
        c == CharAt(s, i)
        j == SkipWs(s, i + 1)
        stack == st.stack
        top == stack[Len(stack)]
        rest == SubSeq(stack, 1, Len(stack) - 1)
        scalar == ParseScalar(s, i)
    IN  CASE st.mode = "value" /\ c = "{" ->
                IF CharAt(s, j) = "}"
                THEN Complete(stack, [t |-> "object", v |-> <<>>], j + 1)
                ELSE Decoder("key", j, Append(stack, Frame("object", <<>>, <<>>)), st.val)
          [] st.mode = "value" /\ c = "[" ->
                IF CharAt(s, j) = "]"
                THEN Complete(stack, [t |-> "array", v |-> <<>>], j + 1)
                ELSE Decoder("value", j, Append(stack, Frame("array", <<>>, <<>>)), st.val)
          [] st.mode = "value" /\ c \notin {"{", "["} ->
                IF scalar.ok THEN Complete(stack, scalar.val, scalar.next) ELSE DecoderFail
          [] st.mode = "key" ->
                IF c = "\"" /\ scalar.ok
                THEN Decoder("colon", scalar.next,
                             Append(rest, Frame(top.t, top.v, scalar.val.v)), st.val)
                ELSE DecoderFail
          [] st.mode = "colon" ->
                IF c = ":" THEN Decoder("value", i + 1, stack, st.val) ELSE DecoderFail
          [] st.mode = "after" ->
                IF c = "," THEN Decoder(IF top.t = "array" THEN "value" ELSE "key",
                                        i + 1, stack, st.val)
                ELSE IF (c = "]" /\ top.t = "array") \/ (c = "}" /\ top.t = "object")
                THEN Complete(rest, [t |-> top.t, v |-> top.v], i + 1)
                ELSE DecoderFail
          [] st.mode = "end" ->
                IF i = Len(s) + 1 THEN Decoder("done", i, <<>>, st.val) ELSE DecoderFail

RECURSIVE Decode(_, _)
Decode(s, st) ==
    IF st.mode \in {"done", "fail"} THEN st ELSE Decode(s, DecodeStep(s, st))

\* json.loads(text): the decoded value, or a JSONDecodeError (ok = FALSE) when no
\* value starts the text or anything but whitespace follows it
JsonLoads(s) ==
    LET st == Decode(s, Decoder("value", 1, <<>>, JsonFail.val)) IN
    [ok |-> st.mode = "done", val |-> st.val]

(***************************************************************************)
(* Python operations on decoded values                                     *)
(***************************************************************************)

\* a number literal whose value is zero: every digit before the exponent is 0
IsZeroLiteral(lit) ==
    /\ lit \notin {<<"N","a","N">>, <<"I","n","f","i","n","i","t","y">>, <<"-","I","n","f","i","n","i","t","y">>}
    /\ \A k \in 1..Len(lit) :
          (\A h \in 1..k : lit[h] \notin {"e", "E"}) => lit[k] \in {"0", "-", "."}

\* bool(value)
Truthy(x) ==
    CASE x.t = "object" -> x.v # <<>>
      [] x.t = "array" -> x.v # <<>>
      [] x.t = "string" -> x.v # <<>>
      [] x.t = "number" -> ~IsZeroLiteral(x.v)
      [] x.t = "true" -> TRUE
      [] x.t = "false" -> FALSE
      [] x.t = "null" -> FALSE

HasMember(x, key) == \E k \in 1..Len(x.v) : x.v[k][1] = key

\* a dict keeps the last member of a repeated key
Member(x, key) ==
    x.v[CHOOSE k \in 1..Len(x.v) :
            x.v[k][1] = key /\ \A h \in (k + 1)..Len(x.v) : x.v[h][1] # key][2]

EmptyString == [t |-> "string", v |-> <<>>]

\* value.get(key, "")
DictGet(x, key) ==
    IF x.t # "object" THEN Raise("AttributeError", "get")
    ELSE IF HasMember(x, key) THEN Ok(Member(x, key))
    ELSE Ok(EmptyString)

\* value[key] for a str key
SubscriptKey(x, key) ==
    IF x.t = "object"
    THEN IF HasMember(x, key) THEN Ok(Member(x, key)) ELSE Raise("KeyError", "key")
    ELSE Raise("TypeError", "subscript")

\* value[0]
SubscriptZero(x) ==
    CASE x.t = "array" ->
            IF x.v # <<>> THEN Ok(x.v[1]) ELSE Raise("IndexError", "index")
      [] x.t = "string" ->
            IF x.v # <<>> THEN Ok([t |-> "string", v |-> <<x.v[1]>>])
            ELSE Raise("IndexError", "index")
      [] x.t = "object" -> Raise("KeyError", "key")
      [] OTHER -> Raise("TypeError", "subscript")

\* response_data["choices"][0]["message"]["content"]
ChatContent(x) ==
    LET choices == SubscriptKey(x, <<"c","h","o","i","c","e","s">>)
        first == IF choices.ok THEN SubscriptZero(choices.val) ELSE choices
        message == IF first.ok THEN SubscriptKey(first.val, <<"m","e","s","s","a","g","e">>) ELSE first
    IN  IF message.ok THEN SubscriptKey(message.val, <<"c","o","n","t","e","n","t">>) ELSE message

(***************************************************************************)
(* Response Extractor: GitCommitAI.extract_commit_message                  *)
(***************************************************************************)

ChatProviders == {"lmstudio", "openrouter", "custom"}

Providers == {"ollama"} \cup ChatProviders

\* the cleaning, were an escaped carriage return turned into the character
CleanMessageWithReturns(msg) ==
    Strip(Replace(Replace(msg, <<"\\","n">>, <<"\n">>), <<"\\","r">>, <<"\r">>))

\* commit_message.replace('\\n', '\n').replace('\\r', '').strip()
CleanMessage(msg) == Strip(Replace(Replace(msg, <<"\\","n">>, <<"\n">>), <<"\\","r">>, <<>>))

\* sys.exit(1) after printing `message` followed by the raw response
ExitWith(message, resp) == [kind |-> "exit", message |-> message, text |-> resp]

Uncaught(exc) == [kind |-> "raise", message |-> exc.type, text |-> <<>>]

Return(msg) == [kind |-> "return", message |-> "", text |-> msg]

\* the part of extract_commit_message after `commit_message` is assigned
CheckAndClean(x, resp) ==
    IF ~Truthy(x) THEN ExitWith("Failed to generate commit message. API response:", resp)
    ELSE IF x.t # "string" THEN Uncaught(Raise("AttributeError", "replace").val)
    ELSE Return(CleanMessage(x.v))

\* the ollama branch, given the outcome of response_data.get("response", "")
ExtractOllama(got, resp) ==
    IF ~got.ok THEN Uncaught(got.val)
    ELSE IF ~Truthy(got.val)
    THEN ExitWith("Error: Failed to get response from Ollama. Response:", resp)
    ELSE CheckAndClean(got.val, resp)

\* the lmstudio/openrouter/custom branch, given the outcome of
\* response_data["choices"][0]["message"]["content"]
ExtractChat(got, resp) ==
    IF got.ok THEN CheckAndClean(got.val, resp)
    ELSE IF got.val.type \in {"KeyError", "IndexError"}
    THEN ExitWith("Error: Failed to parse response. Response:", resp)
    ELSE Uncaught(got.val)

\* extract_commit_message after json.loads returned `response_data`
ExtractFrom(prov, response_data, resp) ==
    IF prov = "ollama" THEN ExtractOllama(DictGet(response_data, <<"r","e","s","p","o","n","s","e">>), resp)
    ELSE IF prov \in ChatProviders THEN ExtractChat(ChatContent(response_data), resp)
    ELSE CheckAndClean(EmptyString, resp)

\* extract_commit_message after json.loads returned or raised
ExtractParsed(prov, parsed, resp) ==
    IF ~parsed.ok THEN ExitWith("Error: Failed to parse API response as JSON:", resp)
    ELSE ExtractFrom(prov, parsed.val, resp)

ExtractCommitMessage(prov, resp) == ExtractParsed(prov, JsonLoads(resp), resp)

(***************************************************************************)
(* The run pipeline: GitCommitAI.run and the steps it calls                *)
(***************************************************************************)

NoException == [type |-> "none", arg |-> "none"]

\* print(message) with the variable part `text`
Printed(message, text) == [message |-> message, text |-> text]

\* how `pgrep ollama` and `ollama ls` can answer check_ollama_requirements
OllamaChecks == {"ok", "not_running", "model_missing", "ls_failed"}

OllamaCheckMessage(check) ==
    CASE check = "not_running" -> "Error: Ollama server not running. Please start Ollama first:"
      [] check = "model_missing" -> "Error: Model not found in Ollama. Please pull it first:"
      [] check = "ls_failed" -> "Error: Failed to check Ollama models"

\* GitCommitAI(): get_provider_config refuses a current_provider that the
\* configuration does not know
Construct ==
    /\ pc = "__init__"
    /\ IF provider \in Providers
       THEN /\ pc' = "run"
            /\ UNCHANGED raised
       ELSE /\ raised' = [type |-> "ValueError", arg |-> "Unknown provider"]
            /\ pc' = "raised"
    /\ UNCHANGED config_vars
    /\ UNCHANGED << provider, model, base_url, api_key, push, stage_changes, dry_run,
                    staged, git_diff, git_stat, prompts, reply, changes, diff_content,
                    use_diff_content, detailed_changes, model_tier, instructions,
                    response, commit_message, requests, git_log, output >>

\* run(), up to the call of get_git_changes: the API key check and
\* check_ollama_requirements
Run ==
    /\ pc = "run"
    /\ \E check \in OllamaChecks :
          IF provider = "openrouter" /\ api_key = <<>>
          THEN /\ output' = Append(output,
                      Printed("No API key found. Please provide the OpenRouter API key using --api-key flag", <<>>))
               /\ pc' = "exit"
          ELSE IF provider = "ollama" /\ check # "ok"
          THEN /\ output' = Append(output, Printed(OllamaCheckMessage(check), <<>>))
               /\ pc' = "exit"
          ELSE /\ output' = output
               /\ pc' = "get_git_changes"
    /\ UNCHANGED config_vars
    /\ UNCHANGED << provider, model, base_url, api_key, push, stage_changes, dry_run,
                    staged, git_diff, git_stat, prompts, reply, changes, diff_content,
                    use_diff_content, detailed_changes, model_tier, instructions,
                    response, commit_message, requests, git_log, raised >>

small_diff_limit == 15000

medium_diff_limit == 50000

truncate_to == 12000

\* f"\n\n[... diff truncated due to size - showing first {truncate_to} characters only]"
TruncationMarker ==
    <<"\n","\n","[",".",".","."," ","d","i","f","f"," ","t","r","u","n","c","a","t","e","d"," ","d","u","e"," ","t","o"," ","s","i","z","e"," ","-"," ","s","h","o","w","i","n","g"," ","f","i","r","s","t"," ">> \o IntToText(truncate_to)
    \o <<" ","c","h","a","r","a","c","t","e","r","s"," ","o","n","l","y","]">>

\* the sizing, were its two comparisons strict
SizeDiffStrict(diff) ==
    LET diff_char_count == Len(diff) IN
    IF diff_char_count < small_diff_limit
    THEN [diff_content |-> diff, use_diff_content |-> TRUE, stat |-> FALSE]
    ELSE IF diff_char_count < medium_diff_limit
    THEN [diff_content |-> Prefix(diff, truncate_to) \o TruncationMarker,
          use_diff_content |-> TRUE, stat |-> FALSE]
    ELSE [diff_content |-> diff, use_diff_content |-> FALSE, stat |-> TRUE]

\* the "smart diff handling" of get_git_changes: the diff text, whether it is
\* used, and whether the stat summary is fetched
SizeDiff(diff) ==
    LET diff_char_count == Len(diff) IN
    IF diff_char_count <= small_diff_limit
    THEN [diff_content |-> diff, use_diff_content |-> TRUE, stat |-> FALSE]
    ELSE IF diff_char_count <= medium_diff_limit
    THEN [diff_content |-> Prefix(diff, truncate_to) \o TruncationMarker,
          use_diff_content |-> TRUE, stat |-> FALSE]
    ELSE [diff_content |-> diff, use_diff_content |-> FALSE, stat |-> TRUE]

\* the file list, were it not stripped
CleanChangesUnstripped(name_status) == Replace(name_status, <<"\t">>, <<" ">>)

\* result.stdout.replace('\t', ' ').strip()
CleanChanges(name_status) == Strip(Replace(name_status, <<"\t">>, <<" ">>))

\* the git commands get_git_changes runs before it knows the diff size
FirstGitCommands(stage) ==
    (IF stage THEN <<"add .">> ELSE <<>>) \o <<"diff --cached --name-status">>

GetGitChanges ==
    /\ pc = "get_git_changes"
    /\ \E git_ok \in BOOLEAN :
          LET chg == CleanChanges(staged)
              sized == SizeDiff(git_diff)
          IN  IF ~git_ok
              THEN \* the first git command exits non-zero: check=True raises
                   /\ git_log' = Append(git_log, Head(FirstGitCommands(stage_changes)))
                   /\ raised' = [type |-> "CalledProcessError", arg |-> "git"]
                   /\ pc' = "raised"
                   /\ UNCHANGED << output, changes, diff_content, use_diff_content,
                                   detailed_changes >>
              ELSE IF chg = <<>>
              THEN /\ git_log' = git_log \o FirstGitCommands(stage_changes)
                   /\ output' = Append(output,
                          Printed("No staged changes found. Please stage your changes using 'git add' first.", <<>>))
                   /\ pc' = "exit"
                   /\ UNCHANGED << raised, changes, diff_content, use_diff_content,
                                   detailed_changes >>
              ELSE /\ git_log' = git_log \o FirstGitCommands(stage_changes)
                                 \o <<"diff --cached">>
                                 \o (IF sized.stat THEN <<"diff --cached --stat">> ELSE <<>>)
                   /\ changes' = chg
                   /\ diff_content' = sized.diff_content
                   /\ use_diff_content' = sized.use_diff_content
                   /\ detailed_changes' = IF sized.stat THEN git_stat ELSE <<>>
                   /\ pc' = "make_api_request"
                   /\ UNCHANGED << output, raised >>
    /\ UNCHANGED config_vars
    /\ UNCHANGED << provider, model, base_url, api_key, push, stage_changes, dry_run,
                    staged, git_diff, git_stat, prompts, reply, model_tier,
                    instructions, response, commit_message, requests >>

\* the endpoint make_api_request appends to the base URL
\* the endpoint, were lmstudio taken for a server of the ollama kind
EndpointLocalGenerate(prov) ==
    IF prov \in {"ollama", "lmstudio"} THEN <<"g","e","n","e","r","a","t","e">> ELSE <<"c","h","a","t","/","c","o","m","p","l","e","t","i","o","n","s">>

Endpoint(prov) == IF prov = "ollama" THEN <<"g","e","n","e","r","a","t","e">> ELSE <<"c","h","a","t","/","c","o","m","p","l","e","t","i","o","n","s">>

\* f"{self.base_url}/{endpoint}"
Url(base, prov) == base \o <<"/">> \o Endpoint(prov)

\* the headers, were a stored key sent to whichever provider is current
HeadersWithAnyStoredKey(prov, key) ==
    LET content_type == ("Content-Type" :> <<"a","p","p","l","i","c","a","t","i","o","n","/","j","s","o","n">>)
        authorization == ("Authorization" :> (<<"B","e","a","r","e","r"," ">> \o key))
    IN  CASE prov = "openrouter" ->
                content_type @@ authorization
                @@ ("HTTP-Referer" :> <<"h","t","t","p","s",":","/","/","g","i","t","h","u","b",".","c","o","m","/","m","r","g","o","o","n","i","e","/","c","m","a","i">>)
                @@ ("X-Title" :> <<"c","m","a","i"," ","-"," ","A","I"," ","C","o","m","m","i","t"," ","M","e","s","s","a","g","e"," ","G","e","n","e","r","a","t","o","r">>)
          [] prov # "openrouter" /\ key # <<>> -> content_type @@ authorization
          [] OTHER -> content_type

\* the request headers, header name -> value
Headers(prov, key) ==
    LET content_type == ("Content-Type" :> <<"a","p","p","l","i","c","a","t","i","o","n","/","j","s","o","n">>)
        authorization == ("Authorization" :> (<<"B","e","a","r","e","r"," ">> \o key))
    IN  CASE prov = "openrouter" ->
                content_type @@ authorization
                @@ ("HTTP-Referer" :> <<"h","t","t","p","s",":","/","/","g","i","t","h","u","b",".","c","o","m","/","m","r","g","o","o","n","i","e","/","c","m","a","i">>)
                @@ ("X-Title" :> <<"c","m","a","i"," ","-"," ","A","I"," ","C","o","m","m","i","t"," ","M","e","s","s","a","g","e"," ","G","e","n","e","r","a","t","o","r">>)
          [] prov = "custom" /\ key # <<>> -> content_type @@ authorization
          [] OTHER -> content_type

\* the build, were the default model of ollama sent whatever is configured
BuildRequestDefaultModel(prov, store, mdl, chg, diff, use_diff, stats) ==
    IF prov = "ollama"
    THEN BuildOllamaRequest(store, <<"q","w","e","n","3",":","1",".","7","b">>, chg, diff, use_diff, stats)
    ELSE IF prov \in ChatProviders
    THEN BuildOpenrouterRequest(store, <<"q","w","e","n","3",":","1",".","7","b">>, chg, diff, use_diff, stats)
    ELSE Raise("ValueError", "Unknown provider")

\* request_data as make_api_request builds it for the provider
BuildRequest(prov, store, mdl, chg, diff, use_diff, stats) ==
    IF prov = "ollama" THEN BuildOllamaRequest(store, mdl, chg, diff, use_diff, stats)
    ELSE IF prov \in ChatProviders
    THEN BuildOpenrouterRequest(store, mdl, chg, diff, use_diff, stats)
    ELSE Raise("ValueError", "Unknown provider")

\* urlopen returns a response with this body
Body(text) == [ok |-> TRUE, body |-> text]

\* urlopen raises (URLError or any other exception)
TransportError == [ok |-> FALSE, body |-> <<>>]

\* make_api_request, were a failed request sent a second time
MakeApiRequestRetrying ==
    /\ pc = "make_api_request"
    /\ LET request_data == BuildRequest(provider, prompts, model, changes,
                                        diff_content, use_diff_content, detailed_changes)
           sent == [url |-> Url(base_url, provider),
                    headers |-> Headers(provider, api_key),
                    data |-> request_data.val]
       IN  IF ~request_data.ok
           THEN /\ raised' = request_data.val
                /\ pc' = "raised"
                /\ UNCHANGED << requests, response, output >>
           ELSE /\ IF ~reply.ok
                   THEN /\ requests' = requests \o <<sent, sent>>
                        /\ output' = Append(output, Printed("Error making API request:", <<>>))
                        /\ pc' = "exit"
                        /\ UNCHANGED response
                   ELSE /\ requests' = Append(requests, sent)
                        /\ response' = reply.body
                        /\ pc' = "extract_commit_message"
                        /\ UNCHANGED output
                /\ UNCHANGED raised
    /\ model_tier' = IF provider = "ollama" THEN GetModelTier(model) ELSE model_tier
    /\ instructions' = IF provider = "ollama" THEN OllamaInstructions(prompts, model, changes, diff_content)
                       ELSE instructions
    /\ UNCHANGED config_vars
    /\ UNCHANGED << provider, model, base_url, api_key, push, stage_changes, dry_run,
                    staged, git_diff, git_stat, prompts, reply, changes, diff_content,
                    use_diff_content, detailed_changes, commit_message, git_log >>

MakeApiRequest ==
    /\ pc = "make_api_request"
    /\ LET request_data == BuildRequest(provider, prompts, model, changes,
                                        diff_content, use_diff_content, detailed_changes)
       IN  IF ~request_data.ok
           THEN /\ raised' = request_data.val
                /\ pc' = "raised"
                /\ UNCHANGED << requests, response, output >>
           ELSE /\ requests' = Append(requests,
                       [url |-> Url(base_url, provider),
                        headers |-> Headers(provider, api_key),
                        data |-> request_data.val])
                /\ IF ~reply.ok
                   THEN /\ output' = Append(output, Printed("Error making API request:", <<>>))
                        /\ pc' = "exit"
                        /\ UNCHANGED response
                   ELSE /\ response' = reply.body
                        /\ pc' = "extract_commit_message"
                        /\ UNCHANGED output
                /\ UNCHANGED raised
    /\ model_tier' = IF provider = "ollama" THEN GetModelTier(model) ELSE model_tier
    /\ instructions' = IF provider = "ollama" THEN OllamaInstructions(prompts, model, changes, diff_content)
                       ELSE instructions
    /\ UNCHANGED config_vars
    /\ UNCHANGED << provider, model, base_url, api_key, push, stage_changes, dry_run,
                    staged, git_diff, git_stat, prompts, reply, changes, diff_content,
                    use_diff_content, detailed_changes, commit_message, git_log >>

ExtractStep ==
    /\ pc = "extract_commit_message"
    /\ LET r == ExtractCommitMessage(provider, response) IN
          CASE r.kind = "return" ->
                  /\ commit_message' = r.text
                  /\ pc' = "execute_commit"
                  /\ UNCHANGED << output, raised >>
            [] r.kind = "exit" ->
                  /\ output' = Append(output, Printed(r.message, r.text))
                  /\ pc' = "exit"
                  /\ UNCHANGED << commit_message, raised >>
            [] r.kind = "raise" ->
                  /\ raised' = [type |-> r.message, arg |-> "extract_commit_message"]
                  /\ pc' = "raised"
                  /\ UNCHANGED << commit_message, output >>
    /\ UNCHANGED config_vars
    /\ UNCHANGED << provider, model, base_url, api_key, push, stage_changes, dry_run,
                    staged, git_diff, git_stat, prompts, reply, changes, diff_content,
                    use_diff_content, detailed_changes, model_tier, instructions,
                    response, requests, git_log >>

\* execute_commit, were the failure of git commit reported without leaving
ExecuteCommitPushingAnyway ==
    /\ pc = "execute_commit"
    /\ \E commit_ok \in BOOLEAN, push_ok \in BOOLEAN :
          LET failed == IF commit_ok THEN <<>>
                        ELSE <<Printed("Failed to commit changes", <<>>)>>
          IN  IF dry_run
              THEN /\ output' = output \o
                          << Printed("Dry run mode - Generated commit message:", commit_message),
                             Printed("Use 'cmai' without --dry-run to execute the commit.", <<>>) >>
                   /\ git_log' = git_log
                   /\ pc' = "done"
              ELSE IF push /\ ~push_ok
              THEN /\ git_log' = git_log \o <<"commit -m", "push origin">>
                   /\ output' = output \o failed
                                 \o <<Printed("Failed to push changes", <<>>)>>
                   /\ pc' = "exit"
              ELSE /\ git_log' = git_log \o <<"commit -m">>
                                 \o (IF push THEN <<"push origin">> ELSE <<>>)
                   /\ output' = output \o failed
                          \o (IF push
                              THEN <<Printed("Successfully pushed changes to origin", <<>>)>>
                              ELSE <<>>)
                          \o <<Printed("Successfully committed changes with message:",
                                       commit_message)>>
                   /\ pc' = "done"
    /\ UNCHANGED config_vars
    /\ UNCHANGED << provider, model, base_url, api_key, push, stage_changes, dry_run,
                    staged, git_diff, git_stat, prompts, reply, changes, diff_content,
                    use_diff_content, detailed_changes, model_tier, instructions,
                    response, commit_message, requests, raised >>

\* execute_commit, were the return after the preview missing
ExecuteCommitAfterPreview ==
    /\ pc = "execute_commit"
    /\ \E commit_ok \in BOOLEAN, push_ok \in BOOLEAN :
          LET preview == IF dry_run
                         THEN << Printed("Dry run mode - Generated commit message:",
                                         commit_message),
                                 Printed("Use 'cmai' without --dry-run to execute the commit.",
                                         <<>>) >>
                         ELSE <<>>
          IN  IF ~commit_ok
              THEN /\ git_log' = Append(git_log, "commit -m")
                   /\ output' = output \o preview
                                 \o <<Printed("Failed to commit changes", <<>>)>>
                   /\ pc' = "exit"
              ELSE IF push /\ ~push_ok
              THEN /\ git_log' = git_log \o <<"commit -m", "push origin">>
                   /\ output' = output \o preview
                                 \o <<Printed("Failed to push changes", <<>>)>>
                   /\ pc' = "exit"
              ELSE /\ git_log' = git_log \o <<"commit -m">>
                                 \o (IF push THEN <<"push origin">> ELSE <<>>)
                   /\ output' = output \o preview
                          \o (IF push
                              THEN <<Printed("Successfully pushed changes to origin", <<>>)>>
                              ELSE <<>>)
                          \o <<Printed("Successfully committed changes with message:",
                                       commit_message)>>
                   /\ pc' = "done"
    /\ UNCHANGED config_vars
    /\ UNCHANGED << provider, model, base_url, api_key, push, stage_changes, dry_run,
                    staged, git_diff, git_stat, prompts, reply, changes, diff_content,
                    use_diff_content, detailed_changes, model_tier, instructions,
                    response, commit_message, requests, raised >>

ExecuteCommit ==
    /\ pc = "execute_commit"
    /\ \E commit_ok \in BOOLEAN, push_ok \in BOOLEAN :
          IF dry_run
          THEN /\ output' = output \o
                      << Printed("Dry run mode - Generated commit message:", commit_message),
                         Printed("Use 'cmai' without --dry-run to execute the commit.", <<>>) >>
               /\ git_log' = git_log
               /\ pc' = "done"
          ELSE IF ~commit_ok
          THEN /\ git_log' = Append(git_log, "commit -m")
               /\ output' = Append(output, Printed("Failed to commit changes", <<>>))
               /\ pc' = "exit"
          ELSE IF push /\ ~push_ok
          THEN /\ git_log' = git_log \o <<"commit -m", "push origin">>
               /\ output' = Append(output, Printed("Failed to push changes", <<>>))
               /\ pc' = "exit"
          ELSE /\ git_log' = git_log \o <<"commit -m">>
                             \o (IF push THEN <<"push origin">> ELSE <<>>)
               /\ output' = output
                      \o (IF push
                          THEN <<Printed("Successfully pushed changes to origin", <<>>)>>
                          ELSE <<>>)
                      \o <<Printed("Successfully committed changes with message:", commit_message)>>
               /\ pc' = "done"
    /\ UNCHANGED config_vars
    /\ UNCHANGED << provider, model, base_url, api_key, push, stage_changes, dry_run,
                    staged, git_diff, git_stat, prompts, reply, changes, diff_content,
                    use_diff_content, detailed_changes, model_tier, instructions,
                    response, commit_message, requests, raised >>

(***************************************************************************)
(* Inputs: repository states, template directories, configurations         *)
(***************************************************************************)

\* providers/<name>.json does not exist
NoFile == [exists |-> FALSE, api_key |-> <<>>, model |-> <<>>, base_url |-> <<>>]

\* the content of providers/<name>.json as _save_json_file writes it
Saved(api_key_, model_, base_url_) ==
    [exists |-> TRUE, api_key |-> api_key_, model |-> model_, base_url |-> base_url_]

\* no Config method has been called
NoCall ==
    [n |-> 0, op |-> "none", provider |-> "none", error |-> "none", current |-> "none",
     config |-> NoFile, last_set |-> "none"]

\* n copies of a character that no detector, marker or placeholder mentions
Pad(n) == [i \in 1..n |-> "~"]

\* a diff of exactly n characters that starts with `head`
DiffOfLength(head, n) ==
    IF n <= Len(head) THEN Prefix(head, n) ELSE head \o Pad(n - Len(head))

\* a one-line change with operator spacing (formatting hint only)
SpacingDiff == <<"d","i","f","f"," ","-","-","g","i","t"," ","a","/","s","r","c","/","u","t","i","l","s",".","p","y"," ","b","/","s","r","c","/","u","t","i","l","s",".","p","y","\n","@","@"," ","-","1"," ","+","1"," ","@","@","\n","-","x","=","1","\n","+","x"," ","="," ","1">>

\* a change no detector reacts to
PlainDiff == <<"d","i","f","f"," ","-","-","g","i","t"," ","a","/","s","r","c","/","u","t","i","l","s",".","p","y"," ","b","/","s","r","c","/","u","t","i","l","s",".","p","y","\n","@","@"," ","-","1"," ","+","1"," ","@","@","\n","-","x","\n","+","y">>

\* a change that mentions a performance keyword
CacheDiff == <<"d","i","f","f"," ","-","-","g","i","t"," ","a","/","s","r","c","/","u","t","i","l","s",".","p","y"," ","b","/","s","r","c","/","u","t","i","l","s",".","p","y","\n","@","@"," ","-","1"," ","+","1"," ","@","@","\n","-","x","\n","+","c","a","c","h","e">>

OneFile == <<"M","\t","s","r","c","/","u","t","i","l","s",".","p","y","\n">>

ThreeFiles == <<"M","\t","r","e","q","u","i","r","e","m","e","n","t","s",".","t","x","t","\n","A","\t","s","r","c","/","a",".","p","y","\n","M","\t","s","r","c","/","b",".","p","y","\n">>

StatText == <<" ","s","r","c","/","u","t","i","l","s",".","p","y"," ","|"," ","9","0","0"," ","+","+","+","+","+","-","-","-","-","-","\n"," ","1"," ","f","i","l","e"," ","c","h","a","n","g","e","d","\n">>

TemplateFiles ==
    { "openrouter_system.txt", "openrouter_user.txt", "small_model.txt",
      "medium_model.txt", "large_model.txt", "final_check.txt", "ollama_base.txt" }

\* a prompts directory that holds every template
FullDir ==
    [f \in TemplateFiles |-> File(
        CASE f = "openrouter_system.txt" -> <<"Y","o","u"," ","w","r","i","t","e"," ","c","o","m","m","i","t"," ","m","e","s","s","a","g","e","s",".","\n">>
          [] f = "openrouter_user.txt" -> <<"C","h","a","n","g","e","s",":","\n","{","c","h","a","n","g","e","s","}","\n","\n","{","d","i","f","f","_","s","e","c","t","i","o","n","}","\n">>
          [] f = "small_model.txt" -> <<"S","M","A","L","L",":"," ","u","s","e"," ","t","y","p","e","(","s","c","o","p","e",")",":"," ","s","u","b","j","e","c","t","\n">>
          [] f = "medium_model.txt" -> <<"M","E","D","I","U","M",":"," ","c","o","n","v","e","n","t","i","o","n","a","l"," ","c","o","m","m","i","t","\n">>
          [] f = "large_model.txt" -> <<"L","A","R","G","E",":"," ","c","o","m","m","i","t"," ","m","e","s","s","a","g","e","\n">>
          [] f = "final_check.txt" -> <<"F","I","N","A","L"," ","C","H","E","C","K",":"," ","t","y","p","e"," ","i","s"," ","c","o","r","r","e","c","t","\n">>
          [] f = "ollama_base.txt" ->
                <<"{","i","n","s","t","r","u","c","t","i","o","n","s","}","\n","\n","C","h","a","n","g","e","s",":","\n","{","c","h","a","n","g","e","s","}","\n","\n","{","d","i","f","f","_","s","e","c","t","i","o","n","}","\n","{","f","i","n","a","l","_","c","h","e","c","k","}">>)]

\* a prompts directory that does not exist
NoDir == [f \in TemplateFiles |-> Absent]

\* directory d without the files in `missing`
Without(d, missing) == [f \in TemplateFiles |-> IF f \in missing THEN Absent ELSE d[f]]

Store(script_dir, config_dir, installed_dir) ==
    [script_dir |-> script_dir, config_dir |-> config_dir, installed_dir |-> installed_dir]

\* default_configs[provider]["base_url"], and the URL of the --use-custom example
DefaultBaseUrl(prov) ==
    CASE prov = "openrouter" -> <<"h","t","t","p","s",":","/","/","o","p","e","n","r","o","u","t","e","r",".","a","i","/","a","p","i","/","v","1">>
      [] prov = "ollama" -> <<"h","t","t","p",":","/","/","l","o","c","a","l","h","o","s","t",":","1","1","4","3","4","/","a","p","i">>
      [] prov = "lmstudio" -> <<"h","t","t","p",":","/","/","l","o","c","a","l","h","o","s","t",":","1","2","3","4","/","v","1">>
      [] prov = "custom" -> <<"h","t","t","p",":","/","/","m","y","-","a","p","i",".","c","o","m">>
      [] OTHER -> <<>>

\* the state main() starts GitCommitAI() in: the configuration files, the
\* command line, the repository, the template directories and the server;
\* every variable that run() assigns is still unset
RunState(provs, models, keys, flags, stageds, diffs, stores, replies) ==
    /\ provider \in provs
    /\ model \in models
    /\ base_url = DefaultBaseUrl(provider)
    /\ api_key \in keys
    /\ push \in flags.push
    /\ stage_changes \in flags.stage_changes
    /\ dry_run \in flags.dry_run
    /\ staged \in stageds
    /\ git_diff \in diffs
    /\ git_stat = StatText
    /\ prompts \in stores
    /\ reply \in replies
    /\ pc = "__init__"
    /\ changes = <<>>
    /\ diff_content = <<>>
    /\ use_diff_content = TRUE
    /\ detailed_changes = <<>>
    /\ model_tier = "unset"
    /\ instructions = <<>>
    /\ response = <<>>
    /\ commit_message = <<>>
    /\ requests = <<>>
    /\ git_log = <<>>
    /\ output = <<>>
    /\ raised = NoException

\* the state in which main() starts a run: the fields of the application as
\* GitCommitAI() has read them from the stored configuration
Launched(provs, models, keys, flags, stageds, diffs, stores, replies) ==
    /\ RunState(provs, models, keys, flags, stageds, diffs, stores, replies)
    /\ config_files =
          [current_provider |-> provider,
           providers |-> [p \in Providers |->
                            IF p = provider THEN Saved(api_key, model, base_url) ELSE NoFile]]
    /\ called = NoCall

AnyFlags == [push |-> BOOLEAN, stage_changes |-> BOOLEAN, dry_run |-> BOOLEAN]

\* the defaults of main(): stage, commit, do not push
DefaultFlags == [push |-> {FALSE}, stage_changes |-> {TRUE}, dry_run |-> {FALSE}]

SmallModel == <<"q","w","e","n","3",":","1",".","7","b">>

LargeModel == <<"m","o","d","e","l","-","3","2","b","-","1","b">>

MediumModel == <<"d","e","f","a","u","l","t">>

StoredKey == <<"s","k","-","o","r","-","1">>

FullStore == Store(FullDir, NoDir, NoDir)

OllamaReply == Body(<<"{","\"","r","e","s","p","o","n","s","e","\"",":"," ","\"","f","e","a","t",":"," ","a","d","d"," ","x","\"","}">>)

ChatReply == Body(<<"{","\"","c","h","o","i","c","e","s","\"",":"," ","[","{","\"","m","e","s","s","a","g","e","\"",":"," ","{","\"","c","o","n","t","e","n","t","\"",":"," ","\"","f","i","x",":"," ","y","\\","\\","n","b","o","d","y","\"","}","}","]","}">>)

HtmlReply == Body(<<"<","h","t","m","l",">","5","0","2"," ","B","a","d"," ","G","a","t","e","w","a","y","<","/","h","t","m","l",">">>)

(***************************************************************************)
(* Spec: the whole run, over every provider and flag combination           *)
(***************************************************************************)

RunStaged == { <<>>, <<" ","\n">>, OneFile }

RunStores ==
    { FullStore,
      Store(NoDir, NoDir, NoDir),
      Store(Without(FullDir, {"openrouter_user.txt", "ollama_base.txt"}), NoDir, NoDir),
      Store(NoDir, Without(FullDir, {"openrouter_system.txt", "small_model.txt"}),
            Without(FullDir, {"final_check.txt"})) }

RunReplies == { OllamaReply, ChatReply, HtmlReply, TransportError }

Init ==
    Launched(Providers \cup {"bedrock"}, {SmallModel, LargeModel}, {<<>>, StoredKey}, AnyFlags,
                RunStaged, {SpacingDiff}, RunStores, RunReplies)

Next ==
    \/ Construct
    \/ Run
    \/ GetGitChanges
    \/ MakeApiRequest
    \/ ExtractStep
    \/ ExecuteCommit

Spec == Init /\ [][Next]_vars

(***************************************************************************)
(* SpecTier: ollama runs over a family of model names                      *)
(***************************************************************************)

MaxFragments == 2

TierFragments ==
    { <<"m","o","d","e","l","-">>, <<"q","w","e","n","3",":">>, <<"3","2","b">>, <<"7","0","B">>, <<"-","1","b">>, <<"1",".","7","b">>, <<"2","B">>, <<"7","b">>, <<"8","B">>,
      <<"3","0">>, <<"b">>, <<"L","l","a","m","a">> }

RECURSIVE Concatenations(_)
Concatenations(n) ==
    IF n = 0 THEN { <<>> }
    ELSE LET shorter == Concatenations(n - 1)
         IN  shorter \cup { a \o f : a \in shorter, f \in TierFragments }

TierModels == Concatenations(MaxFragments) \cup { SmallModel, LargeModel }

InitTier ==
    Launched({"ollama"}, TierModels, {<<>>}, DefaultFlags, {OneFile},
                {PlainDiff}, {FullStore}, {OllamaReply})

SpecTier == InitTier /\ [][Next]_vars

(***************************************************************************)
(* SpecSizer: runs over diffs whose lengths surround the two limits        *)
(***************************************************************************)

SizerSlack == 1

SizerLengths ==
    { Len(PlainDiff) } \cup
    { limit + d : limit \in { truncate_to, small_diff_limit, medium_diff_limit },
                  d \in (0 - SizerSlack)..SizerSlack }

SizerDiffs == { DiffOfLength(PlainDiff, n) : n \in SizerLengths }

InitSizer ==
    Launched({"ollama", "openrouter"}, {SmallModel}, {StoredKey}, DefaultFlags,
                {OneFile}, SizerDiffs, {FullStore}, {OllamaReply})

SpecSizer == InitSizer /\ [][Next]_vars

(***************************************************************************)
(* SpecBuild: runs over providers, tiers, change lists and diffs of every  *)
(* sizing mode                                                             *)
(***************************************************************************)

BuildDiffs == { PlainDiff, SpacingDiff, CacheDiff }

BuildStores ==
    { FullStore,
      Store(NoDir, Without(FullDir, {"final_check.txt"}), NoDir) }

InitBuild ==
    Launched(Providers, {SmallModel, MediumModel, LargeModel}, {StoredKey},
                DefaultFlags, {OneFile, ThreeFiles}, BuildDiffs, BuildStores,
                {OllamaReply})

SpecBuild == InitBuild /\ [][Next]_vars

(***************************************************************************)
(* SpecStatOnly: runs over diffs too long to be sent                       *)
(***************************************************************************)

\* two diffs of the same length, alike but for one word
LongPlainDiff == DiffOfLength(PlainDiff, medium_diff_limit + 1)

LongCacheDiff == DiffOfLength(CacheDiff, medium_diff_limit + 1)

StatOnlyDiffs == { LongPlainDiff, LongCacheDiff }

InitStatOnly ==
    Launched(Providers, {SmallModel, MediumModel, LargeModel}, {StoredKey},
                DefaultFlags, {OneFile}, StatOnlyDiffs, {FullStore}, {OllamaReply})

SpecStatOnly == InitStatOnly /\ [][Next]_vars

(***************************************************************************)
(* SpecExtract: runs over the bodies a server can answer with              *)
(***************************************************************************)

\* bodies that are no JSON document
NotJsonReplies ==
    { <<>>,
      <<"n","o","t"," ","j","s","o","n">>,
      <<"<","h","t","m","l",">","5","0","2"," ","B","a","d"," ","G","a","t","e","w","a","y","<","/","h","t","m","l",">">>,
      <<"{","\"","r","e","s","p","o","n","s","e","\"",":"," ","\"","f","e","a","t",":"," ","a","d","d"," ","x","\"">>,
      <<"{","'","r","e","s","p","o","n","s","e","'",":"," ","'","f","e","a","t",":"," ","a","d","d"," ","x","'","}">>,
      <<"{","\"","r","e","s","p","o","n","s","e","\"",":"," ","\"","f","e","a","t",":"," ","a","d","d"," ","x","\"","}"," ","t","r","a","i","l","i","n","g">>,
      <<"{","\"","r","e","s","p","o","n","s","e","\"",":"," ","\"","f","e","a","t",":"," ","a","d","d"," ","x","\"",",","}">>,
      <<"{","\"","c","h","o","i","c","e","s","\"",":"," ","[","{","\"","m","e","s","s","a","g","e","\"",":"," ","{","\"","c","o","n","t","e","n","t","\"",":"," ","\"","f","i","x",":"," ","y","\"","}","}">>,
      <<"N","a","N">>,
      <<"{","\"","r","e","s","p","o","n","s","e","\"",":"," ","\"","f","e","a","t",":"," ","a","d","d"," ","x","\"",","," ","\"","l","o","a","d","\"",":"," ","N","a","N","}">>,
      <<"{","\"","c","h","o","i","c","e","s","\"",":"," ","[","{","\"","m","e","s","s","a","g","e","\"",":"," ","{","\"","c","o","n","t","e","n","t","\"",":"," ","\"","f","i","x",":"," ","y","\"","}","}","]",","," ","\"","c","o","s","t","\"",":"," ","I","n","f","i","n","i","t","y","}">> }

\* JSON documents whose top level is an object
ObjectReplies ==
    { <<"{","\"","r","e","s","p","o","n","s","e","\"",":"," ","\"","f","e","a","t",":"," ","a","d","d"," ","x","\"","}">>,
      <<"{","\"","r","e","s","p","o","n","s","e","\"",":"," ","\""," "," ","f","i","x",":"," ","y","\\","\\","n","b","o","d","y","\\","\\","r"," ","\"",","," ","\"","d","o","n","e","\"",":"," ","t","r","u","e","}">>,
      <<"{","\"","r","e","s","p","o","n","s","e","\"",":"," ","\"","f","i","x",":"," ","y","\\","\\","r","b","o","d","y","\\","\\","n","m","o","r","e","\"","}">>,
      <<"{","\"","r","e","s","p","o","n","s","e","\"",":"," ","\""," ","\\","\\","n","\\","\\","r"," ","\"","}">>,
      <<"{","\"","r","e","s","p","o","n","s","e","\"",":"," ","\"","f","i","x",":"," ","a","\\","\\","\\","\\","r","n","b","\"","}">>,
      <<"{","\"","c","h","o","i","c","e","s","\"",":"," ","[","{","\"","m","e","s","s","a","g","e","\"",":"," ","{","\"","c","o","n","t","e","n","t","\"",":"," ","\"","f","i","x",":"," ","y","\\","\\","r","b","o","d","y","\"","}","}","]","}">>,
      <<"{","\"","c","h","o","i","c","e","s","\"",":"," ","[","{","\"","m","e","s","s","a","g","e","\"",":"," ","{","\"","c","o","n","t","e","n","t","\"",":"," ","\"","\\","\\","n","\"","}","}","]","}">>,
      <<"{","\"","r","e","s","p","o","n","s","e","\"",":"," ","\"","\"","}">>,
      <<"{","\"","r","e","s","p","o","n","s","e","\"",":"," ","\""," "," "," ","\"","}">>,
      <<"{","\"","r","e","s","p","o","n","s","e","\"",":"," ","n","u","l","l","}">>,
      <<"{","\"","r","e","s","p","o","n","s","e","\"",":"," ","5","}">>,
      <<"{","\"","r","e","s","p","o","n","s","e","\"",":"," ","t","r","u","e","}">>,
      <<"{","\"","r","e","s","p","o","n","s","e","\"",":"," ","[","\"","f","e","a","t",":"," ","a","d","d"," ","x","\"","]","}">>,
      <<"{","\"","r","e","s","p","o","n","s","e","\"",":"," ","{","\"","t","e","x","t","\"",":"," ","\"","f","e","a","t",":"," ","a","d","d"," ","x","\"","}","}">>,
      <<"{","}">>,
      <<"{","\"","e","r","r","o","r","\"",":"," ","{","\"","m","e","s","s","a","g","e","\"",":"," ","\"","r","a","t","e"," ","l","i","m","i","t","e","d","\"","}","}">>,
      <<"{","\"","c","h","o","i","c","e","s","\"",":"," ","[","{","\"","m","e","s","s","a","g","e","\"",":"," ","{","\"","c","o","n","t","e","n","t","\"",":"," ","\"","f","i","x",":"," ","y","\"","}","}","]","}">>,
      <<"{","\"","c","h","o","i","c","e","s","\"",":"," ","[","{","\"","m","e","s","s","a","g","e","\"",":"," ","{","\"","c","o","n","t","e","n","t","\"",":"," ","\"","f","i","x",":"," ","y","\\","\\","n","b","o","d","y","\"","}","}",","," ","{","\"","m","e","s","s","a","g","e","\"",":"," ","{","\"","c","o","n","t","e","n","t","\"",":"," ","\"","o","t","h","e","r","\"","}","}","]","}">>,
      <<"{","\"","c","h","o","i","c","e","s","\"",":"," ","[","{","\"","m","e","s","s","a","g","e","\"",":"," ","{","\"","c","o","n","t","e","n","t","\"",":"," ","\"","\"","}","}","]","}">>,
      <<"{","\"","c","h","o","i","c","e","s","\"",":"," ","[","{","\"","m","e","s","s","a","g","e","\"",":"," ","{","\"","c","o","n","t","e","n","t","\"",":"," ","n","u","l","l","}","}","]","}">>,
      <<"{","\"","c","h","o","i","c","e","s","\"",":"," ","[","{","\"","m","e","s","s","a","g","e","\"",":"," ","{","\"","c","o","n","t","e","n","t","\"",":"," ","5","}","}","]","}">>,
      <<"{","\"","c","h","o","i","c","e","s","\"",":"," ","[","{","\"","m","e","s","s","a","g","e","\"",":"," ","{","\"","c","o","n","t","e","n","t","\"",":"," ","[","\"","f","i","x",":"," ","y","\"","]","}","}","]","}">>,
      <<"{","\"","c","h","o","i","c","e","s","\"",":"," ","[","{","\"","m","e","s","s","a","g","e","\"",":"," ","{","}","}","]","}">>,
      <<"{","\"","c","h","o","i","c","e","s","\"",":"," ","[","{","\"","m","e","s","s","a","g","e","\"",":"," ","n","u","l","l","}","]","}">>,
      <<"{","\"","c","h","o","i","c","e","s","\"",":"," ","[","{","\"","m","e","s","s","a","g","e","\"",":"," ","\"","f","i","x",":"," ","y","\"","}","]","}">>,
      <<"{","\"","c","h","o","i","c","e","s","\"",":"," ","[","{","}","]","}">>,
      <<"{","\"","c","h","o","i","c","e","s","\"",":"," ","[","n","u","l","l","]","}">>,
      <<"{","\"","c","h","o","i","c","e","s","\"",":"," ","[","\"","f","i","x",":"," ","y","\"","]","}">>,
      <<"{","\"","c","h","o","i","c","e","s","\"",":"," ","[","]","}">>,
      <<"{","\"","c","h","o","i","c","e","s","\"",":"," ","n","u","l","l","}">>,
      <<"{","\"","c","h","o","i","c","e","s","\"",":"," ","\"","f","i","x",":"," ","y","\"","}">>,
      <<"{","\"","c","h","o","i","c","e","s","\"",":"," ","5","}">>,
      <<"{","\"","c","h","o","i","c","e","s","\"",":"," ","{","\"","0","\"",":"," ","{","\"","m","e","s","s","a","g","e","\"",":"," ","{","\"","c","o","n","t","e","n","t","\"",":"," ","\"","f","i","x",":"," ","y","\"","}","}","}","}">> }

\* JSON documents whose top level is no object
NonObjectReplies ==
    { <<"[","1","]">>,
      <<"[","]">>,
      <<"[","{","\"","r","e","s","p","o","n","s","e","\"",":"," ","\"","f","e","a","t",":"," ","a","d","d"," ","x","\"","}","]">>,
      <<"\"","f","e","a","t",":"," ","a","d","d"," ","x","\"">>,
      <<"n","u","l","l">>,
      <<"t","r","u","e">>,
      <<"5">> }

ExtractReplies == { Body(text) : text \in NotJsonReplies \cup ObjectReplies \cup NonObjectReplies }

InitExtract ==
    Launched(Providers, {SmallModel}, {StoredKey}, DefaultFlags, {OneFile},
                {PlainDiff}, {FullStore}, ExtractReplies)

SpecExtract == InitExtract /\ [][Next]_vars

(***************************************************************************)
(* SpecChanges: ollama runs over a family of staged file lists             *)
(***************************************************************************)

MaxLines == 4

StagedLines ==
    { <<"M","\t","s","r","c","/","a","p","p",".","p","y","\n">>, <<"M","\t","r","e","q","u","i","r","e","m","e","n","t","s",".","t","x","t","\n">>, <<"A","\t","P","i","p","f","i","l","e","\n">>, <<"\t","\n">>,
      <<"R","\t","l","i","b","/","s","p","l","i","t",".","p","y","\n">> }

\* every text of at most n of the given lines
RECURSIVE Texts(_, _)
Texts(lines, n) ==
    IF n = 0 THEN { <<>> }
    ELSE LET shorter == Texts(lines, n - 1)
         IN  shorter \cup { a \o line : a \in shorter, line \in lines }

SpecChanges ==
    /\ Launched({"ollama"}, {SmallModel}, {<<>>}, DefaultFlags, Texts(StagedLines, MaxLines),
                {PlainDiff}, {FullStore}, {OllamaReply})
    /\ [][Next]_vars

(***************************************************************************)
(* SpecDiffs: ollama runs over a family of short diffs                     *)
(***************************************************************************)

MaxDiffLines == 3

DiffHeader == <<"d","i","f","f"," ","-","-","g","i","t"," ","a","/","s","r","c","/","u","t","i","l","s",".","p","y"," ","b","/","s","r","c","/","u","t","i","l","s",".","p","y","\n","@","@"," ","-","1",",","3"," ","+","1",",","3"," ","@","@","\n">>

DiffLines ==
    { <<"-","x","<","y","\n">>, <<"-","F","O","R","M","A","T","\n">>, <<"-","I","n","d","e","n","t","a","t","i","o","n","\n">>, <<"-","a"," ","="," ","b","\n">>, <<"-","c"," ","<"," ","d","\n">>,
      <<"+","y","\n">> }

SpecDiffs ==
    /\ Launched({"ollama"}, {SmallModel}, {<<>>}, DefaultFlags, {OneFile},
                { DiffHeader \o body : body \in Texts(DiffLines, MaxDiffLines) },
                {FullStore}, {OllamaReply})
    /\ [][Next]_vars

(***************************************************************************)
(* SpecLookup: chat runs over what the three directories hold of one file  *)
(***************************************************************************)

\* what directory `loc` can hold of openrouter_system.txt
Holdings(loc) ==
    { Absent, Unreadable, File(<<" ","\n">>),
      File(CASE loc = "script_dir" -> <<"s","c","r","i","p","t",":"," ","y","o","u"," ","w","r","i","t","e"," ","c","o","m","m","i","t"," ","m","e","s","s","a","g","e","s",".","\n">>
             [] loc = "config_dir" -> <<"c","o","n","f","i","g",":"," ","y","o","u"," ","w","r","i","t","e"," ","c","o","m","m","i","t"," ","m","e","s","s","a","g","e","s",".","\n">>
             [] loc = "installed_dir" -> <<"i","n","s","t","a","l","l","e","d",":"," ","y","o","u"," ","w","r","i","t","e"," ","c","o","m","m","i","t"," ","m","e","s","s","a","g","e","s",".","\n">>) }

\* the other templates are in the installed location only
LookupStores ==
    { Store([NoDir EXCEPT !["openrouter_system.txt"] = a],
            [NoDir EXCEPT !["openrouter_system.txt"] = b],
            [FullDir EXCEPT !["openrouter_system.txt"] = c]) :
        a \in Holdings("script_dir"), b \in Holdings("config_dir"),
        c \in Holdings("installed_dir") }

SpecLookup ==
    /\ Launched(ChatProviders, {MediumModel}, {StoredKey}, DefaultFlags, {OneFile},
                {PlainDiff}, LookupStores, {ChatReply})
    /\ [][Next]_vars

(***************************************************************************)
(* SpecShape: runs of every provider over a diff of each sizing mode       *)
(***************************************************************************)

SpecShape ==
    /\ Launched(Providers, {SmallModel, LargeModel}, {StoredKey}, DefaultFlags, {OneFile},
                { PlainDiff, DiffOfLength(PlainDiff, small_diff_limit + 1), LongPlainDiff },
                {FullStore}, {OllamaReply, ChatReply})
    /\ [][Next]_vars

(***************************************************************************)
(* SpecMarkers: ollama runs in which the one staged file is named as a     *)
(* marker of the dependency list                                           *)
(***************************************************************************)

SpecMarkers ==
    /\ Launched({"ollama"}, {SmallModel}, {<<>>}, DefaultFlags,
                { <<"M","\t">> \o DepFiles[k] \o <<"\n">> : k \in 1..Len(DepFiles) },
                {PlainDiff}, {FullStore}, {OllamaReply})
    /\ [][Next]_vars

(***************************************************************************)
(* Config: the stored configuration and the methods that read and write it *)
(***************************************************************************)

MaxCalls == 3

\* Config.default_configs
default_configs(p) ==
    CASE p = "openrouter" ->
            Saved(<<>>, <<"g","o","o","g","l","e","/","g","e","m","i","n","i","-","f","l","a","s","h","-","1",".","5","-","8","b">>, <<"h","t","t","p","s",":","/","/","o","p","e","n","r","o","u","t","e","r",".","a","i","/","a","p","i","/","v","1">>)
      [] p = "ollama" -> Saved(<<>>, <<"q","w","e","n","3",":","1",".","7","b">>, <<"h","t","t","p",":","/","/","l","o","c","a","l","h","o","s","t",":","1","1","4","3","4","/","a","p","i">>)
      [] p = "lmstudio" -> Saved(<<>>, <<"d","e","f","a","u","l","t">>, <<"h","t","t","p",":","/","/","l","o","c","a","l","h","o","s","t",":","1","2","3","4","/","v","1">>)
      [] p = "custom" -> Saved(<<>>, <<>>, <<>>)

\* _load_json_file: the content of the file, or a copy of the default
LoadJsonFile(file, default) == IF file.exists THEN file ELSE default

\* get_current_provider on the files as they are
CurrentProvider(files) ==
    IF files.current_provider = "absent" THEN "openrouter" ELSE files.current_provider

\* the provider names a caller can pass
ConfigNames == Providers \cup {"bedrock"}

\* the provider a save or get method works on: None stands for the current one
Resolved(files, p) == IF p = "None" THEN CurrentProvider(files) ELSE p

\* the call is counted and its outcome kept for inspection
Answer(op, p, error, current, config, set) ==
    /\ called.n < MaxCalls
    /\ called' = [n |-> called.n + 1, op |-> op, provider |-> p, error |-> error,
                  current |-> current, config |-> config,
                  last_set |-> IF set THEN p ELSE called.last_set]

GetCurrentProvider ==
    /\ Answer("get_current_provider", "none", "none", CurrentProvider(config_files), NoFile,
              FALSE)
    /\ UNCHANGED << config_files, provider, model, base_url, run_frame >>

\* set_current_provider, were the name not checked
SetCurrentProviderUnchecked ==
    /\ \E p \in ConfigNames :
          /\ Answer("set_current_provider", p, "none", "none", NoFile, TRUE)
          /\ config_files' = [config_files EXCEPT !.current_provider = p]
    /\ UNCHANGED << provider, model, base_url, run_frame >>

SetCurrentProvider ==
    /\ \E p \in ConfigNames :
          IF p \notin Providers
          THEN /\ Answer("set_current_provider", p, "ValueError", "none", NoFile, FALSE)
               /\ UNCHANGED config_files
          ELSE /\ Answer("set_current_provider", p, "none", "none", NoFile, TRUE)
               /\ config_files' = [config_files EXCEPT !.current_provider = p]
    /\ UNCHANGED << provider, model, base_url, run_frame >>

GetProviderConfig ==
    /\ \E p \in ConfigNames :
          IF p \notin Providers
          THEN Answer("get_provider_config", p, "ValueError", "none", NoFile, FALSE)
          ELSE Answer("get_provider_config", p, "none", "none",
                      LoadJsonFile(config_files.providers[p], default_configs(p)), FALSE)
    /\ UNCHANGED << config_files, provider, model, base_url, run_frame >>

SaveProviderConfig ==
    /\ \E p \in ConfigNames, config \in { Saved(StoredKey, SmallModel, <<"h","t","t","p",":","/","/","m","y","-","a","p","i",".","c","o","m">>) } :
          IF p \notin Providers
          THEN /\ Answer("save_provider_config", p, "ValueError", "none", NoFile, FALSE)
               /\ UNCHANGED config_files
          ELSE /\ Answer("save_provider_config", p, "none", "none", config, FALSE)
               /\ config_files' = [config_files EXCEPT !.providers[p] = config]
    /\ UNCHANGED << provider, model, base_url, run_frame >>

\* api_key.split()[0] if api_key else "": the first word of the key; a key of
\* white space only has no first word
CleanApiKey(key) ==
    LET word == LStrip(key)
        cut == IF \E i \in 1..Len(word) : word[i] \in Whitespace
               THEN CHOOSE i \in 1..Len(word) :
                       /\ word[i] \in Whitespace
                       /\ \A j \in 1..(i - 1) : word[j] \notin Whitespace
               ELSE Len(word) + 1
    IN  IF key = <<>> THEN Ok(<<>>)
        ELSE IF word = <<>> THEN Raise("IndexError", "list index out of range")
        ELSE Ok(Prefix(word, cut - 1))

SaveApiKey ==
    /\ \E arg \in ConfigNames \cup {"None"},
          key \in { <<>>, <<" ">>, StoredKey \o <<" ","-","-","p","u","s","h">> } :
          LET p == Resolved(config_files, arg)
              clean == CleanApiKey(key)
              config == LoadJsonFile(config_files.providers[p], default_configs(p))
          IN  IF ~clean.ok
              THEN /\ Answer("save_api_key", p, clean.val.type, "none", NoFile, FALSE)
                   /\ UNCHANGED config_files
              ELSE IF p \notin Providers
              THEN /\ Answer("save_api_key", p, "ValueError", "none", NoFile, FALSE)
                   /\ UNCHANGED config_files
              ELSE /\ Answer("save_api_key", p, "none", "none",
                             [config EXCEPT !.api_key = clean.val], FALSE)
                   /\ config_files' = [config_files EXCEPT
                                          !.providers[p] = [config EXCEPT !.api_key = clean.val]]
    /\ UNCHANGED << provider, model, base_url, run_frame >>

SaveModel ==
    /\ \E arg \in ConfigNames \cup {"None"}, value \in { SmallModel } :
          LET p == Resolved(config_files, arg)
              config == LoadJsonFile(config_files.providers[p], default_configs(p))
          IN  IF p \notin Providers
              THEN /\ Answer("save_model", p, "ValueError", "none", NoFile, FALSE)
                   /\ UNCHANGED config_files
              ELSE /\ Answer("save_model", p, "none", "none",
                             [config EXCEPT !.model = value], FALSE)
                   /\ config_files' = [config_files EXCEPT
                                          !.providers[p] = [config EXCEPT !.model = value]]
    /\ UNCHANGED << provider, model, base_url, run_frame >>

SaveBaseUrl ==
    /\ \E arg \in ConfigNames \cup {"None"}, value \in { <<"h","t","t","p",":","/","/","m","y","-","a","p","i",".","c","o","m">> } :
          LET p == Resolved(config_files, arg)
              config == LoadJsonFile(config_files.providers[p], default_configs(p))
          IN  IF p \notin Providers
              THEN /\ Answer("save_base_url", p, "ValueError", "none", NoFile, FALSE)
                   /\ UNCHANGED config_files
              ELSE /\ Answer("save_base_url", p, "none", "none",
                             [config EXCEPT !.base_url = value], FALSE)
                   /\ config_files' = [config_files EXCEPT
                                          !.providers[p] = [config EXCEPT !.base_url = value]]
    /\ UNCHANGED << provider, model, base_url, run_frame >>

\* GitCommitAI.setup_provider: the fields are set before the configuration
\* is read, so they are set even when the provider is refused
SetupProvider ==
    /\ \E p \in ConfigNames, url \in { <<"h","t","t","p",":","/","/","m","y","-","a","p","i",".","c","o","m">> }, mdl \in { MediumModel } :
          /\ provider' = p
          /\ base_url' = url
          /\ model' = mdl
          /\ IF p \notin Providers
             THEN /\ Answer("setup_provider", p, "ValueError", "none", NoFile, FALSE)
                  /\ UNCHANGED config_files
             ELSE LET config == [LoadJsonFile(config_files.providers[p], default_configs(p))
                                    EXCEPT !.base_url = url, !.model = mdl]
                  IN  /\ Answer("setup_provider", p, "none", "none", config, TRUE)
                      /\ config_files' = [config_files EXCEPT !.providers[p] = config,
                                                               !.current_provider = p]
    /\ UNCHANGED run_frame

\* a fresh installation, or one whose config.json names a provider that this
\* version does not know
InitConfig ==
    /\ config_files \in
          { [current_provider |-> c, providers |-> [p \in Providers |-> NoFile]] :
              c \in {"absent", "bedrock"} }
    /\ called = NoCall
    /\ RunState({CurrentProvider(config_files)}, {MediumModel}, {<<>>}, DefaultFlags,
                {OneFile}, {PlainDiff}, {FullStore}, {ChatReply})

NextConfig ==
    \/ GetCurrentProvider
    \/ SetCurrentProvider
    \/ GetProviderConfig
    \/ SaveProviderConfig
    \/ SaveApiKey
    \/ SaveModel
    \/ SaveBaseUrl
    \/ SetupProvider

SpecConfig == InitConfig /\ [][NextConfig]_vars

(***************************************************************************)
(* Properties                                                              *)
(***************************************************************************)

\* the text of a request that carries the changes: the prompt of a generate
\* request, the user message of a chat request
Prompt(data) ==
    IF "prompt" \in DOMAIN data THEN data.prompt ELSE data.messages[2].content

\* git has run this command in this run
HasRun(command) == \E k \in 1..Len(git_log) : git_log[k] = command

\* str.upper()
Upper(s) ==
    SubSeq([i \in 1..Len(s) |->
               IF \E k \in 1..26 : LowerChars[k] = s[i]
               THEN UpperChars[CHOOSE k \in 1..26 : LowerChars[k] = s[i]]
               ELSE s[i]], 1, Len(s))

TruncationNote ==
    <<"\n","\n","[",".",".","."," ","d","i","f","f"," ","t","r","u","n","c","a","t","e","d"," ","d","u","e"," ","t","o"," ","s","i","z","e"," ","-"," ","s","h","o","w","i","n","g"," ","f","i","r","s","t"," ","1","2","0","0","0"," ","c","h","a","r","a","c","t","e","r","s"," ","o","n","l","y","]">>

\* C1: once get_git_changes has returned, exactly one sizing mode applies to
\* the staged diff.  At most 15000 characters: the diff is embedded verbatim.
\* 15001 to 50000 characters: its first 12000 characters are embedded,
\* followed by the truncation marker that names 12000.  More than 50000
\* characters: the stat summary is fetched, and the request's diff section
\* holds the summary and no diff text.
C1_DiffSizing ==
    changes # <<>> =>
        LET n == Len(git_diff)
            sent == requests # <<>>
            text == IF sent THEN Prompt(requests[1].data) ELSE <<>>
        IN  /\ (n <= 15000) =>
                  /\ use_diff_content
                  /\ diff_content = git_diff
                  /\ ~HasRun("diff --cached --stat")
                  /\ sent => Contains(text, <<"<","d","i","f","f",">","\n">> \o git_diff \o <<"\n","<","/","d","i","f","f",">">>)
            /\ (n >= 15001 /\ n <= 50000) =>
                  /\ use_diff_content
                  /\ diff_content = SubSeq(git_diff, 1, 12000) \o TruncationNote
                  /\ ~HasRun("diff --cached --stat")
                  /\ sent => Contains(text, <<"<","d","i","f","f",">","\n">> \o SubSeq(git_diff, 1, 12000)
                                            \o TruncationNote \o <<"\n","<","/","d","i","f","f",">">>)
            /\ (n > 50000) =>
                  /\ ~use_diff_content
                  /\ HasRun("diff --cached --stat")
                  /\ detailed_changes = git_stat
                  /\ sent =>
                        /\ Contains(text, <<"<","f","i","l","e","_","s","t","a","t","s",">","\n">> \o git_stat \o <<"\n","<","/","f","i","l","e","_","s","t","a","t","s",">">>)
                        /\ ~Contains(text, <<"<","d","i","f","f",">">>)
                        /\ ~Contains(text, SubSeq(git_diff, 1, 10))
                        /\ \A k \in 1..Len(text) : text[k] # git_diff[n]

\* a request went out for a diff one character over the first limit
C1_Witness ==
    /\ Len(git_diff) = 15001
    /\ Len(diff_content) < 15001
    /\ requests # <<>>

\* C2: when the staged file list is blank, the run stops with an error: no
\* request is built or sent, and git neither commits nor pushes.
C2_NoStagedChanges ==
    AllWhitespace(staged, 1, Len(staged)) =>
        /\ requests = <<>>
        /\ commit_message = <<>>
        /\ ~HasRun("commit -m")
        /\ ~HasRun("push origin")
        /\ pc \in {"__init__", "run", "get_git_changes", "exit", "raised"}
        /\ (pc \notin {"__init__", "run", "get_git_changes"} /\ raised = NoException
            /\ HasRun("diff --cached --name-status")) =>
              /\ pc = "exit"
              /\ output[Len(output)] =
                    Printed("No staged changes found. Please stage your changes using 'git add' first.", <<>>)

\* a run whose file list was only white space has stopped
C2_Witness ==
    /\ staged # <<>>
    /\ AllWhitespace(staged, 1, Len(staged))
    /\ HasRun("diff --cached --name-status")
    /\ pc = "exit"

\* the templates the provider's payload cannot be built without
RequiredTemplates ==
    IF provider = "ollama"
    THEN { TierFile(GetModelTier(model)), "ollama_base.txt" }
    ELSE { "openrouter_system.txt", "openrouter_user.txt" }

MissingTemplates ==
    { f \in RequiredTemplates :
        \A loc \in {"script_dir", "config_dir", "installed_dir"} : ~prompts[loc][f].exists }

\* C3: when a template the provider requires is in none of the three
\* locations, building the payload fails with a missing-resource error that
\* names a missing file; no payload is produced and no request is sent.
C3_MissingTemplate ==
    MissingTemplates # {} =>
        /\ requests = <<>>
        /\ pc \notin {"extract_commit_message", "execute_commit", "done"}
        /\ (changes # <<>> /\ pc # "make_api_request") =>
              /\ pc = "raised"
              /\ raised.type = "FileNotFoundError"
              /\ raised.arg \in MissingTemplates

\* the build failed on ollama_base.txt, which no location holds
C3_Witness ==
    /\ provider = "ollama"
    /\ "ollama_base.txt" \in MissingTemplates
    /\ changes # <<>>
    /\ pc = "raised"
    /\ raised.arg = "ollama_base.txt"

\* C4: the large markers are tried first, then the small ones: a name with a
\* large marker resolves to large whatever else it holds ("model-32b-1b"), and
\* a name with a small marker and no large one resolves to small
\* ("qwen3:1.7b").
C4_TierPrecedence ==
    model_tier # "unset" =>
        LET name == Lower(model)
            large == \E m \in {<<"3","2","b">>, <<"3","0","b">>, <<"7","0","b">>, <<"7","2","b">>} : Contains(name, m)
            small == \E m \in {<<"1",".","7","b">>, <<"1","b">>, <<"2","b">>} : Contains(name, m)
        IN  /\ large => model_tier = "large"
            /\ (small /\ ~large) => model_tier = "small"
            /\ (model = <<"m","o","d","e","l","-","3","2","b","-","1","b">>) => model_tier = "large"
            /\ (model = <<"q","w","e","n","3",":","1",".","7","b">>) => model_tier = "small"

\* a name with a large and a small marker was resolved
C4_Witness ==
    /\ model = <<"m","o","d","e","l","-","3","2","b","-","1","b">>
    /\ model_tier = "large"

EndsWith(s, t) == Len(t) <= Len(s) /\ MatchAt(s, t, Len(s) - Len(t))

\* C6: for a large-tier model the instructions in the prompt are exactly the
\* large template: no hint and no final check, whatever the changes and the
\* diff.  For a medium or small model the hints and the final check follow the
\* unchanged tier template.
C6_TierGating ==
    (provider = "ollama" /\ requests # <<>>) =>
        LET tier == GetModelTier(model)
            tier_template == LoadPromptTemplate(prompts, TierFile(tier))
            final_check == LoadPromptTemplate(prompts, "final_check.txt")
            heading == <<"S","M","A","R","T"," ","C","O","N","T","E","X","T"," ","H","I","N","T","S",":">>
            prompt == requests[1].data.prompt
        IN  /\ Contains(prompt, instructions)
            /\ (tier = "large") =>
                  /\ instructions = LoadPromptTemplate(prompts, "large_model.txt")
                  /\ ~Contains(prompt, heading)
                  /\ (final_check # <<>>) => ~Contains(prompt, final_check)
            /\ (tier \in {"medium", "small"}) =>
                  /\ Prefix(instructions, Len(tier_template)) = tier_template
                  /\ (final_check # <<>>) => EndsWith(instructions, <<"\n","\n">> \o final_check)
                  /\ Contains(instructions, heading) =>
                        MatchAt(instructions, HintsHeader, Len(tier_template))

\* a large-tier prompt was built for changes that do raise hints
C6_Witness ==
    /\ provider = "ollama"
    /\ requests # <<>>
    /\ GetModelTier(model) = "large"
    /\ DetectChangeContext(changes, diff_content) # <<>>
    /\ LoadPromptTemplate(prompts, "final_check.txt") # <<>>

\* C7: when the diff is too long to be sent, the payload does not depend on
\* the diff text: for the same provider, model, changes and stat summary, any
\* other diff that is too long gives the payload that was sent.
C7_StatOnlyIgnoresDiff ==
    (requests # <<>> /\ ~use_diff_content) =>
        \A other \in StatOnlyDiffs :
            LET sized == SizeDiff(other)
                built == BuildRequest(provider, prompts, model, changes,
                                      sized.diff_content, sized.use_diff_content, git_stat)
            IN  ~sized.use_diff_content => (built.ok /\ built.val = requests[1].data)

\* extract_commit_message has returned, exited or raised on the body received
Extracted ==
    /\ requests # <<>>
    /\ reply.ok
    /\ pc \notin {"make_api_request", "extract_commit_message"}

\* the run has ended with this message, printed with the raw response
ExitedWith(messages) ==
    /\ pc = "exit"
    /\ output # <<>>
    /\ output[Len(output)].message \in messages
    /\ output[Len(output)].text = response

\* C8: on a body that is no JSON document, extract_commit_message ends in a
\* fatal error that reports the raw body; no message is returned and git does
\* not commit.
C8_InvalidJsonIsFatal ==
    (Extracted /\ response \in NotJsonReplies) =>
        /\ ExitedWith({"Error: Failed to parse API response as JSON:"})
        /\ commit_message = <<>>
        /\ ~HasRun("commit -m")

ResponseFormatErrors ==
    { "Error: Failed to get response from Ollama. Response:",
      "Error: Failed to parse response. Response:",
      "Failed to generate commit message. API response:" }

\* C9: for ollama and a body that is a JSON document, the message returned
\* is the normalized "response" text; a document whose "response" is absent,
\* empty or no text, or whose top level is no object, is a fatal
\* response-format error.
C9_OllamaResponseField ==
    (provider = "ollama" /\ Extracted /\ JsonLoads(response).ok) =>
        LET doc == JsonLoads(response).val
            usable == /\ doc.t = "object"
                      /\ HasMember(doc, <<"r","e","s","p","o","n","s","e">>)
                      /\ Member(doc, <<"r","e","s","p","o","n","s","e">>).t = "string"
                      /\ Member(doc, <<"r","e","s","p","o","n","s","e">>).v # <<>>
        IN  IF usable
            THEN /\ commit_message = CleanMessage(Member(doc, <<"r","e","s","p","o","n","s","e">>).v)
                 /\ pc # "raised"
            ELSE /\ ExitedWith(ResponseFormatErrors)
                 /\ commit_message = <<>>

\* C10: for a chat provider and a body that is a JSON document, the message
\* returned is the normalized text at choices[0].message.content; a document
\* in which that path is missing or malformed is a fatal response-format
\* error, and no other kind of failure.
C10_ChatContentPath ==
    (provider \in {"lmstudio", "openrouter", "custom"} /\ Extracted
     /\ JsonLoads(response).ok) =>
        LET doc == JsonLoads(response).val
            choices == Member(doc, <<"c","h","o","i","c","e","s">>)
            message == Member(choices.v[1], <<"m","e","s","s","a","g","e">>)
            content == Member(message, <<"c","o","n","t","e","n","t">>)
            usable == /\ doc.t = "object" /\ HasMember(doc, <<"c","h","o","i","c","e","s">>)
                      /\ choices.t = "array" /\ choices.v # <<>>
                      /\ choices.v[1].t = "object" /\ HasMember(choices.v[1], <<"m","e","s","s","a","g","e">>)
                      /\ message.t = "object" /\ HasMember(message, <<"c","o","n","t","e","n","t">>)
                      /\ content.t = "string" /\ content.v # <<>>
        IN  IF usable
            THEN /\ commit_message = CleanMessage(content.v)
                 /\ pc # "raised"
            ELSE /\ ExitedWith(ResponseFormatErrors)
                 /\ commit_message = <<>>

\* the text the reply carries where extract_commit_message looks for it:
\* "response" for ollama, choices[0].message.content for a chat provider
Carried ==
    LET parsed == JsonLoads(response)
        doc == parsed.val
        choices == Member(doc, <<"c","h","o","i","c","e","s">>)
        message == Member(choices.v[1], <<"m","e","s","s","a","g","e">>)
        content == Member(message, <<"c","o","n","t","e","n","t">>)
        none == [found |-> FALSE, text |-> <<>>]
    IN  IF ~parsed.ok \/ doc.t # "object" THEN none
        ELSE IF provider = "ollama"
        THEN IF HasMember(doc, <<"r","e","s","p","o","n","s","e">>) /\ Member(doc, <<"r","e","s","p","o","n","s","e">>).t = "string"
             THEN [found |-> TRUE, text |-> Member(doc, <<"r","e","s","p","o","n","s","e">>).v]
             ELSE none
        ELSE IF /\ HasMember(doc, <<"c","h","o","i","c","e","s">>)
                /\ choices.t = "array" /\ choices.v # <<>>
                /\ choices.v[1].t = "object" /\ HasMember(choices.v[1], <<"m","e","s","s","a","g","e">>)
                /\ message.t = "object" /\ HasMember(message, <<"c","o","n","t","e","n","t">>)
                /\ content.t = "string"
        THEN [found |-> TRUE, text |-> content.v]
        ELSE none

\* extract_commit_message has returned a message to run()
Returned ==
    /\ Extracted
    /\ pc \in {"execute_commit", "done"} \/ HasRun("commit -m")

\* C11, as stated: the returned message is the extracted text with every
\* backslash-n turned into a newline and every backslash-r turned into a
\* carriage return, trimmed.
C11_EscapesBecomeControlCharacters ==
    Returned =>
        /\ Carried.found
        /\ commit_message =
              Strip(Replace(Replace(Carried.text, <<"\\", "n">>, <<"\n">>),
                            <<"\\", "r">>, <<"\r">>))

\* C11, amended: the returned message is the extracted text with every
\* backslash-n turned into a newline and every backslash-r removed, trimmed.
C11_EscapedReturnsAreRemoved ==
    Returned =>
        /\ Carried.found
        /\ commit_message =
              Strip(Replace(Replace(Carried.text, <<"\\", "n">>, <<"\n">>),
                            <<"\\", "r">>, <<>>))

\* a message was returned for a text with both escapes inside it
C11_Witness ==
    /\ Returned
    /\ Contains(Carried.text, <<"y", "\\", "r", "b">>)
    /\ Contains(Carried.text, <<"\\", "n">>)

\* C12: extract_commit_message never returns an empty message: when the
\* extracted text is empty after normalization, extraction ends in a fatal
\* error, and git commit is never run with an empty message.
C12_NeverReturnsEmpty ==
    /\ Returned => commit_message # <<>>
    /\ (Extracted /\ Carried.found
        /\ CleanMessage(Carried.text) = <<>>) =>
          /\ ExitedWith(ResponseFormatErrors)
          /\ ~HasRun("commit -m")

\* the run has printed this message
Said(message) == \E k \in 1..Len(output) : output[k].message = message

ErrorMessages ==
    { "No API key found. Please provide the OpenRouter API key using --api-key flag",
      "Error: Ollama server not running. Please start Ollama first:",
      "Error: Model not found in Ollama. Please pull it first:",
      "Error: Failed to check Ollama models",
      "No staged changes found. Please stage your changes using 'git add' first.",
      "Error making API request:",
      "Error: Failed to parse API response as JSON:",
      "Error: Failed to get response from Ollama. Response:",
      "Error: Failed to parse response. Response:",
      "Failed to generate commit message. API response:",
      "Failed to commit changes",
      "Failed to push changes" }

ErrorSeen == raised # NoException \/ \E m \in ErrorMessages : Said(m)

\* what each kind of error leaves undone
NothingAfterError ==
    /\ ErrorSeen => pc \in {"exit", "raised"}
    /\ Len(requests) <= 1
    /\ (raised.type = "ValueError") => (requests = <<>> /\ git_log = <<>>)
    /\ Said("No staged changes found. Please stage your changes using 'git add' first.") =>
          (requests = <<>> /\ ~HasRun("commit -m"))
    /\ (raised.type = "FileNotFoundError") => (requests = <<>> /\ ~HasRun("commit -m"))
    /\ Said("Error making API request:") =>
          (response = <<>> /\ commit_message = <<>> /\ ~HasRun("commit -m"))
    /\ (\E m \in ResponseFormatErrors \cup {"Error: Failed to parse API response as JSON:"} : Said(m)) =>
          (commit_message = <<>> /\ ~HasRun("commit -m"))
    /\ Said("Failed to commit changes") => ~HasRun("push origin")

\* C13: every error ends the run and nothing is retried: a run sends at most
\* one request, each kind of error leaves the later steps undone, and no
\* step is taken from a state in which an error has been reported.
C13_ErrorsAreTerminal ==
    /\ []NothingAfterError
    /\ [][~ErrorSeen /\ pc \notin {"exit", "raised"}]_vars

\* the one request of a run failed in transport and the run has stopped
C13_Witness ==
    /\ Said("Error making API request:")
    /\ Len(requests) = 1
    /\ pc = "exit"

\* C14: the dependency hint is given for every file list that contains
\* "requirements.txt", and for no file list whose lower-cased text contains
\* none of the fixed markers.
C14_DependencyHint ==
    (provider = "ollama" /\ requests # <<>>) =>
        LET lower == Lower(changes)
            markers == { <<"r","e","q","u","i","r","e","m","e","n","t","s",".","t","x","t">>, <<"p","a","c","k","a","g","e",".","j","s","o","n">>, <<"p","a","c","k","a","g","e","-","l","o","c","k",".","j","s","o","n">>,
                         <<"y","a","r","n",".","l","o","c","k">>, <<"P","i","p","f","i","l","e">>, <<"P","i","p","f","i","l","e",".","l","o","c","k">>, <<"s","e","t","u","p",".","p","y">>,
                         <<"p","y","p","r","o","j","e","c","t",".","t","o","m","l">>, <<"C","a","r","g","o",".","t","o","m","l">>, <<"C","a","r","g","o",".","l","o","c","k">>, <<".","y","m","l">>,
                         <<".","y","a","m","l">>, <<"d","o","c","k","e","r">>, <<"D","o","c","k","e","r","f","i","l","e">> }
            hinted == Contains(instructions, <<"D","e","p","e","n","d","e","n","c","i","e","s"," ","d","e","t","e","c","t","e","d">>)
        IN  /\ Contains(staged, <<"r","e","q","u","i","r","e","m","e","n","t","s",".","t","x","t">>) => hinted
            /\ (\A m \in markers : ~Contains(lower, m)) => ~hinted

\* a prompt was built for a list of files with requirements.txt among them
C14_Witness ==
    /\ provider = "ollama"
    /\ requests # <<>>
    /\ Contains(staged, <<"r","e","q","u","i","r","e","m","e","n","t","s",".","t","x","t">>)
    /\ Contains(staged, <<"s","r","c","/","a","p","p",".","p","y">>)
    /\ Contains(instructions, <<"D","e","p","e","n","d","e","n","c","i","e","s"," ","d","e","t","e","c","t","e","d">>)

\* the number of lines of text that hold a character other than white space
NonBlankLines(text) ==
    Cardinality({ i \in 1..Len(text) :
                    /\ LineStart(text, i)
                    /\ \E j \in i..Len(text) :
                          /\ text[j] \notin Whitespace
                          /\ NoNewline(text, i, j) })

\* C15: the large-refactor hint is given exactly when the file list has
\* at least 3 lines that are not blank or its lower-cased text contains a
\* refactor keyword; lines of white space are not counted.
C15_LargeRefactorHint ==
    (provider = "ollama" /\ requests # <<>>) =>
        LET keywords == { <<"r","e","s","t","r","u","c","t","u","r","e">>, <<"r","e","f","a","c","t","o","r">>, <<"r","e","o","r","g","a","n","i","z","e">>, <<"s","p","l","i","t">>,
                          <<"a","r","c","h","i","t","e","c","t","u","r","e">>, <<"m","o","d","u","l","a","r">>, <<"s","e","p","a","r","a","t","e">> }
            keyword == \E w \in keywords : Contains(Lower(changes), w)
            hinted == Contains(instructions, <<"M","u","l","t","i","p","l","e"," ","f","i","l","e","s"," ","c","h","a","n","g","e","d">>)
        IN  hinted <=> (NonBlankLines(staged) >= 3 \/ keyword)

\* exactly three files, a line of white space between them, and no keyword
C15_Witness ==
    /\ provider = "ollama"
    /\ requests # <<>>
    /\ NonBlankLines(staged) = 3
    /\ Contains(staged, <<"\n","\t","\n">>)
    /\ ~Contains(staged, <<"s","p","l","i","t">>)
    /\ Contains(instructions, <<"M","u","l","t","i","p","l","e"," ","f","i","l","e","s"," ","c","h","a","n","g","e","d">>)

\* C16: the formatting hint is given for every diff that contains one of
\* the keywords spacing, indentation or format in any letter case, and for
\* every diff that shows an operator with a space on either side.
C16_FormattingHint ==
    (provider = "ollama" /\ requests # <<>> /\ use_diff_content) =>
        LET keywords == { <<"s","p","a","c","i","n","g">>, <<"i","n","d","e","n","t","a","t","i","o","n">>, <<"f","o","r","m","a","t">> }
            operators == { <<" ","<"," ">>, <<" ",">"," ">>, <<" ","="," ">>, <<" ","+"," ">>, <<" ","-"," ">> }
            keyword == \E w \in keywords :
                          \E i \in 0..(Len(git_diff) - Len(w)) :
                              \A k \in 1..Len(w) :
                                  git_diff[i + k] \in { w[k], Upper(<<w[k]>>)[1] }
            spaced == \E op \in operators : Contains(git_diff, op)
        IN  (keyword \/ spaced) => Contains(instructions, <<"S","p","a","c","i","n","g","/","f","o","r","m","a","t","t","i","n","g"," ","d","e","t","e","c","t","e","d">>)

\* a prompt was built for a diff whose only sign of formatting is FORMAT
C16_Witness ==
    /\ provider = "ollama"
    /\ requests # <<>>
    /\ use_diff_content
    /\ Contains(git_diff, <<"F","O","R","M","A","T">>)
    /\ ~Contains(git_diff, <<"+","y">>)
    /\ ~Contains(git_diff, <<" ","="," ">>)
    /\ ~Contains(git_diff, <<" ","<"," ">>)
    /\ ~Contains(git_diff, <<"I","n","d","e","n","t","a","t","i","o","n">>)
    /\ Contains(instructions, <<"S","p","a","c","i","n","g","/","f","o","r","m","a","t","t","i","n","g"," ","d","e","t","e","c","t","e","d">>)

\* what the three directories hold of the system template, in search order
SystemFiles ==
    << prompts["script_dir"]["openrouter_system.txt"],
       prompts["config_dir"]["openrouter_system.txt"],
       prompts["installed_dir"]["openrouter_system.txt"] >>

\* get_git_changes has returned the changes and the request has been built or
\* the build has failed
Built == changes # <<>> /\ pc # "make_api_request"

\* C17: the three locations are tried in the order script directory, user
\* configuration directory, installed location; the content of the first
\* location that has the file is what is loaded, a later location counts only
\* when every earlier one lacks the file, and a file found nowhere is loaded
\* as the empty text: the loader raises nothing, it is the builder that then
\* reports the missing file.
C17_LookupOrder ==
    (provider \in ChatProviders /\ Built) =>
        /\ \A k \in 1..3 :
              ( /\ SystemFiles[k].exists /\ SystemFiles[k].readable
                /\ \A h \in 1..(k - 1) : ~SystemFiles[h].exists ) =>
                 LET content == Strip(SystemFiles[k].text) IN
                 IF content # <<>>
                 THEN /\ requests # <<>>
                      /\ requests[1].data.messages[1].content = content
                 ELSE /\ requests = <<>>
                      /\ raised = [type |-> "FileNotFoundError", arg |-> "openrouter_system.txt"]
        /\ (\A k \in 1..3 : ~SystemFiles[k].exists) =>
              /\ requests = <<>>
              /\ raised = [type |-> "FileNotFoundError", arg |-> "openrouter_system.txt"]

\* the file is in the last two locations only and the request carries the
\* text of the user configuration directory
C17_Witness ==
    /\ provider \in ChatProviders
    /\ ~SystemFiles[1].exists
    /\ SystemFiles[2].exists
    /\ SystemFiles[3].exists /\ SystemFiles[3].readable
    /\ Strip(SystemFiles[3].text) # <<>>
    /\ requests # <<>>
    /\ requests[1].data.messages[1].content = <<"c","o","n","f","i","g",":"," ","y","o","u"," ","w","r","i","t","e"," ","c","o","m","m","i","t"," ","m","e","s","s","a","g","e","s",".">>

\* C18: the first existing file that is not empty wins: when an earlier
\* location holds a file that is empty or of white space only and a later
\* location holds a file with content, the later content is what is loaded.
C18_FirstNonEmptyFileWins ==
    (provider \in ChatProviders /\ Built) =>
        \A k \in 2..3 :
            ( /\ SystemFiles[k].exists /\ SystemFiles[k].readable
              /\ Strip(SystemFiles[k].text) # <<>>
              /\ \E h \in 1..(k - 1) : SystemFiles[h].exists
              /\ \A h \in 1..(k - 1) :
                    SystemFiles[h].exists =>
                        SystemFiles[h].readable /\ Strip(SystemFiles[h].text) = <<>> ) =>
                /\ requests # <<>>
                /\ requests[1].data.messages[1].content = Strip(SystemFiles[k].text)

\* C19: the final-check template is required for ollama: for a model of
\* the small or the medium tier, when final_check.txt is in none of the three
\* locations, the build fails with the missing-resource error and no payload
\* is sent.
C19_FinalCheckRequired ==
    ( /\ provider = "ollama"
      /\ GetModelTier(model) \in {"small", "medium"}
      /\ \A k \in 1..3 : ~prompts[Locations[k]]["final_check.txt"].exists
      /\ Built ) =>
        /\ requests = <<>>
        /\ raised = [type |-> "FileNotFoundError", arg |-> "final_check.txt"]

\* C20: for a chat provider the messages are the system template and the
\* user template with the changes and the diff section put in; the same build
\* for any other model name gives the same payload but for its "model" field;
\* no hint and no tier template is in the payload.
C20_ChatIgnoresTierAndHints ==
    (provider \in ChatProviders /\ requests # <<>>) =>
        LET data == requests[1].data
            section == DiffSection(diff_content, use_diff_content, detailed_changes)
            text == data.messages[1].content \o data.messages[2].content
        IN  /\ data.messages =
                  << [role |-> "system", content |-> <<"Y","o","u"," ","w","r","i","t","e"," ","c","o","m","m","i","t"," ","m","e","s","s","a","g","e","s",".">>],
                     [role |-> "user",
                      content |-> <<"C","h","a","n","g","e","s",":","\n">> \o changes \o <<"\n","\n">> \o section] >>
            /\ \A other \in {SmallModel, MediumModel, LargeModel} :
                  LET built == BuildRequest(provider, prompts, other, changes, diff_content,
                                            use_diff_content, detailed_changes)
                  IN  built.ok /\ built.val = [data EXCEPT !.model = other]
            /\ \A mark \in { <<"S","M","A","R","T"," ","C","O","N","T","E","X","T"," ","H","I","N","T","S",":">>, <<"d","e","t","e","c","t","e","d">>, <<"M","u","l","t","i","p","l","e"," ","f","i","l","e","s"," ","c","h","a","n","g","e","d">>,
                             <<"P","e","r","f","o","r","m","a","n","c","e"," ","o","p","t","i","m","i","z","a","t","i","o","n">>, <<"S","M","A","L","L",":">>, <<"M","E","D","I","U","M",":">>, <<"L","A","R","G","E",":">>,
                             <<"F","I","N","A","L"," ","C","H","E","C","K",":">> } :
                  ~Contains(text, mark)

\* a chat request for a small model, for files and a diff that get hints in an
\* ollama prompt
C20_Witness ==
    /\ provider \in ChatProviders
    /\ requests # <<>>
    /\ GetModelTier(model) = "small"
    /\ DetectChangeContext(changes, diff_content) # <<>>
    /\ Contains(changes, <<"r","e","q","u","i","r","e","m","e","n","t","s",".","t","x","t">>)
    /\ Len(requests[1].data.messages) = 2

\* C21: every payload that is built and sent, for every provider and every
\* sizing mode of the diff, carries the configured model in "model" and FALSE
\* in "stream", and is of exactly one of two shapes: a "prompt" text, or a
\* "messages" list whose entries are a role and a content.
C21_PayloadShape ==
    \A k \in 1..Len(requests) :
        LET data == requests[k].data
            single == "prompt" \in DOMAIN data
            chat == "messages" \in DOMAIN data
        IN  /\ data.model = model
            /\ data.stream = FALSE
            /\ single # chat
            /\ single => DOMAIN data.prompt = 1..Len(data.prompt)
            /\ chat =>
                  /\ Len(data.messages) >= 1
                  /\ \A i \in 1..Len(data.messages) :
                        /\ DOMAIN data.messages[i] = {"role", "content"}
                        /\ data.messages[i].role \in {"system", "user"}
                        /\ DOMAIN data.messages[i].content
                              = 1..Len(data.messages[i].content)

\* a payload for provider custom and a large model, built from a diff that
\* was truncated
C21_Witness ==
    /\ provider = "custom"
    /\ model = LargeModel
    /\ requests # <<>>
    /\ Len(git_diff) = small_diff_limit + 1
    /\ "messages" \in DOMAIN requests[1].data

\* a prompt was built for a small-tier model, one changed file and a diff
\* that is sent whole
SmallTierPrompt ==
    /\ provider = "ollama"
    /\ GetModelTier(model) = "small"
    /\ requests # <<>>
    /\ NonBlankLines(staged) = 1
    /\ use_diff_content /\ diff_content = git_diff

\* C22, as claimed: for ollama with a small-tier model, one changed file and
\* a diff sent whole, the prompt includes the small-tier instructions and the
\* hints section.
C22_HintsSectionAlways ==
    SmallTierPrompt =>
        /\ Contains(requests[1].data.prompt, <<"S","M","A","L","L",":"," ","u","s","e"," ","t","y","p","e","(","s","c","o","p","e",")",":"," ","s","u","b","j","e","c","t">>)
        /\ Contains(requests[1].data.prompt, <<"S","M","A","R","T"," ","C","O","N","T","E","X","T"," ","H","I","N","T","S",":">>)

\* C22, amended: for ollama with a small-tier model, one changed file and a
\* diff sent whole, the prompt includes the small-tier instructions, and it
\* includes the hints section exactly when the classifier gives at least one
\* hint for the changes and the diff; the hints then follow the heading.
C22_HintsSectionWhenHinted ==
    SmallTierPrompt =>
        LET prompt == requests[1].data.prompt
            hints == HintList(changes, diff_content)
        IN  /\ Contains(prompt, <<"S","M","A","L","L",":"," ","u","s","e"," ","t","y","p","e","(","s","c","o","p","e",")",":"," ","s","u","b","j","e","c","t">>)
            /\ Contains(prompt, <<"S","M","A","R","T"," ","C","O","N","T","E","X","T"," ","H","I","N","T","S",":">>) <=> hints # <<>>
            /\ \A k \in 1..Len(hints) : Contains(prompt, <<"S","M","A","R","T"," ","C","O","N","T","E","X","T"," ","H","I","N","T","S",":","\n">> \o hints[k])

\* a small-tier prompt for a diff on which a detector fires
C22_Witness ==
    /\ SmallTierPrompt
    /\ Contains(git_diff, <<"-","a"," ","="," ","b","\n">>)
    /\ Contains(requests[1].data.prompt, <<"S","M","A","R","T"," ","C","O","N","T","E","X","T"," ","H","I","N","T","S",":">>)
    /\ Contains(requests[1].data.prompt, <<"S","p","a","c","i","n","g","/","f","o","r","m","a","t","t","i","n","g"," ","d","e","t","e","c","t","e","d">>)

\* C23: with --dry-run a run shows the generated message and runs neither
\* git commit nor git push, whatever --push and --no-stage are and whatever
\* the message is.
C23_DryRunCommitsNothing ==
    dry_run =>
        /\ ~HasRun("commit -m")
        /\ ~HasRun("push origin")
        /\ \A k \in 1..Len(git_log) :
              git_log[k] \in {"add .", "diff --cached --name-status", "diff --cached",
                              "diff --cached --stat"}
        /\ ~Said("Successfully committed changes with message:")
        /\ ~Said("Successfully pushed changes to origin")
        /\ (pc = "done") =>
              \E k \in 1..Len(output) :
                  output[k] = Printed("Dry run mode - Generated commit message:",
                                      commit_message)

\* a dry run with --push and --no-stage has ended with the preview
C23_Witness ==
    /\ dry_run /\ push /\ ~stage_changes
    /\ pc = "done"
    /\ commit_message # <<>>
    /\ Said("Dry run mode - Generated commit message:")

\* C24: every entry of the dependency list can trigger the dependency hint:
\* when the one staged file has the name of the entry, as git reports it,
\* the hint is in the prompt.
C24_EveryMarkerTriggers ==
    (provider = "ollama" /\ requests # <<>>) =>
        \A marker \in { <<"r","e","q","u","i","r","e","m","e","n","t","s",".","t","x","t">>, <<"p","a","c","k","a","g","e",".","j","s","o","n">>, <<"p","a","c","k","a","g","e","-","l","o","c","k",".","j","s","o","n">>,
                        <<"y","a","r","n",".","l","o","c","k">>, <<"P","i","p","f","i","l","e">>, <<"P","i","p","f","i","l","e",".","l","o","c","k">>, <<"s","e","t","u","p",".","p","y">>,
                        <<"p","y","p","r","o","j","e","c","t",".","t","o","m","l">>, <<"C","a","r","g","o",".","t","o","m","l">>, <<"C","a","r","g","o",".","l","o","c","k">>, <<".","y","m","l">>,
                        <<".","y","a","m","l">>, <<"d","o","c","k","e","r">>, <<"D","o","c","k","e","r","f","i","l","e">> } :
            (staged = <<"M","\t">> \o marker \o <<"\n">>) =>
                Contains(requests[1].data.prompt, <<"D","e","p","e","n","d","e","n","c","i","e","s"," ","d","e","t","e","c","t","e","d">>)

\* C25: the truncation marker adds no hint: for a diff longer than
\* small_diff_limit and not longer than medium_diff_limit, and a model of the
\* small or the medium tier, the hints in the prompt are those of the first
\* truncate_to characters of the diff alone.
C25_MarkerAddsNoHint ==
    ( /\ provider = "ollama"
      /\ requests # <<>>
      /\ GetModelTier(model) \in {"small", "medium"}
      /\ Len(git_diff) > small_diff_limit
      /\ Len(git_diff) <= medium_diff_limit ) =>
        LET alone == HintList(changes, Prefix(git_diff, truncate_to)) IN
        \A hint \in {FormattingHint, DependencyHint, PerformanceHint, LargeRefactorHint} :
            Contains(requests[1].data.prompt, hint) <=> (\E k \in 1..Len(alone) : alone[k] = hint)

\* C26: the cleaning is complete and idempotent: the message returned holds
\* no backslash followed by n and no backslash followed by r, and cleaning it
\* again leaves it as it is.
C26_CleaningIsIdempotent ==
    Returned =>
        /\ ~Contains(commit_message, <<"\\","n">>)
        /\ ~Contains(commit_message, <<"\\","r">>)
        /\ Strip(Replace(Replace(commit_message, <<"\\","n">>, <<"\n">>), <<"\\","r">>, <<>>))
              = commit_message

\* the place of a command in the log of git commands (0: it has not run)
RanAt(command) ==
    IF HasRun(command) THEN CHOOSE k \in 1..Len(git_log) : git_log[k] = command ELSE 0

\* what has run and what has been said, in every state of a run
CommitOrder ==
    LET extracted == ExtractCommitMessage(provider, response) IN
    /\ HasRun("commit -m") =>
          /\ Len(requests) = 1
          /\ reply.ok /\ response = reply.body
          /\ extracted.kind = "return"
          /\ commit_message = extracted.text
          /\ ~dry_run
    /\ HasRun("push origin") =>
          /\ push
          /\ HasRun("commit -m")
          /\ RanAt("commit -m") < RanAt("push origin")
          /\ ~Said("Failed to commit changes")
    /\ Said("Failed to commit changes") =>
          /\ ~HasRun("push origin")
          /\ ~Said("Successfully committed changes with message:")
          /\ pc = "exit"
    /\ Said("Successfully pushed changes to origin") =>
          /\ HasRun("push origin")
          /\ ~Said("Failed to push changes")
    /\ Said("Successfully committed changes with message:") =>
          /\ HasRun("commit -m")
          /\ ~Said("Failed to push changes")
          /\ push => HasRun("push origin") /\ Said("Successfully pushed changes to origin")

\* C27: git commit runs only after the request has returned and
\* extract_commit_message has returned a message; git push runs only with
\* the push flag and after a git commit that succeeded; a failed commit is
\* never followed by a push; the success message is printed only after the
\* commit, and the push when asked for, succeeded.  Commit and push are run by
\* the execute_commit step alone, and at most once.
C27_PipelineOrder ==
    /\ []CommitOrder
    /\ [][git_log' # git_log /\ git_log'[Len(git_log')] \in {"commit -m", "push origin"}
            => /\ pc = "execute_commit"
               /\ ~HasRun("commit -m") /\ ~HasRun("push origin")]_vars

\* a run with --push has committed, pushed and said so
C27_Witness ==
    /\ push
    /\ pc = "done"
    /\ git_log[Len(git_log)] = "push origin"
    /\ Said("Successfully pushed changes to origin")
    /\ Said("Successfully committed changes with message:")

\* C28: ollama gets the single-prompt payload, sent to <base_url>/generate;
\* lmstudio, openrouter and custom get the messages payload, sent to
\* <base_url>/chat/completions; for any other provider the unknown-provider
\* error is raised and no payload is built, no request sent.
C28_ShapeByProvider ==
    /\ \A k \in 1..Len(requests) :
          LET sent == requests[k] IN
          /\ provider \in {"ollama", "lmstudio", "openrouter", "custom"}
          /\ (provider = "ollama") =>
                /\ sent.url = base_url \o <<"/","g","e","n","e","r","a","t","e">>
                /\ DOMAIN sent.data = {"model", "prompt", "stream", "think", "options"}
          /\ (provider # "ollama") =>
                /\ sent.url = base_url \o <<"/","c","h","a","t","/","c","o","m","p","l","e","t","i","o","n","s">>
                /\ DOMAIN sent.data = {"model", "stream", "messages"}
    /\ (provider \notin {"ollama", "lmstudio", "openrouter", "custom"}) =>
          /\ requests = <<>>
          /\ git_log = <<>>
          /\ instructions = <<>>
          /\ pc \in {"__init__", "raised"}
          /\ (pc = "raised") => raised = [type |-> "ValueError", arg |-> "Unknown provider"]

\* lmstudio has been sent a messages payload at its chat endpoint
C28_Witness ==
    /\ provider = "lmstudio"
    /\ requests # <<>>
    /\ requests[1].url = <<"h","t","t","p",":","/","/","l","o","c","a","l","h","o","s","t",":","1","2","3","4","/","v","1","/","c","h","a","t","/","c","o","m","p","l","e","t","i","o","n","s">>
    /\ "messages" \in DOMAIN requests[1].data

\* C29: the stored API key goes only to the providers that use it: a
\* request to ollama or lmstudio has no Authorization header; a request to
\* custom has one exactly when the stored key is not empty; a request to
\* openrouter always has one; and a run for openrouter with no stored key
\* stops before anything is staged, built or sent.
C29_KeyOnlyWhereUsed ==
    /\ \A k \in 1..Len(requests) :
          LET headers == requests[k].headers
              authorized == "Authorization" \in DOMAIN headers
          IN  /\ (provider \in {"ollama", "lmstudio"}) => ~authorized
              /\ (provider = "custom") => (authorized <=> api_key # <<>>)
              /\ (provider = "openrouter") => authorized /\ api_key # <<>>
              /\ authorized => headers["Authorization"] = <<"B","e","a","r","e","r"," ">> \o api_key
    /\ (provider = "openrouter" /\ api_key = <<>>) =>
          /\ requests = <<>>
          /\ git_log = <<>>
          /\ instructions = <<>>
          /\ pc \in {"__init__", "run", "exit"}
          /\ (pc = "exit") =>
                Said("No API key found. Please provide the OpenRouter API key using --api-key flag")

\* a key is stored for lmstudio and the request went out without it
C29_Witness ==
    /\ provider = "lmstudio"
    /\ api_key # <<>>
    /\ requests # <<>>
    /\ DOMAIN requests[1].headers = {"Content-Type"}

\* one call of a Config method, seen from the files before and after it
ConfigCall ==
    LET names == {"openrouter", "ollama", "lmstudio", "custom"}
        op == called'.op
        p == called'.provider
    IN  /\ (op \in {"set_current_provider", "get_provider_config", "save_provider_config"}
              /\ p \notin names) =>
                /\ called'.error = "ValueError"
                /\ config_files' = config_files
        /\ (called'.error # "none") => config_files' = config_files
        /\ (op \in {"set_current_provider", "get_provider_config", "save_provider_config"}
              /\ p \in names) => called'.error = "none"
        /\ (op \in {"save_model", "save_base_url", "save_api_key"}) =>
                /\ \A q \in names \ {p} :
                      config_files'.providers[q] = config_files.providers[q]
                /\ config_files'.current_provider = config_files.current_provider
        /\ (op = "set_current_provider" /\ called'.error = "none") =>
                /\ config_files'.providers = config_files.providers
                /\ called'.last_set = p

\* C30: over any sequence of calls, set_current_provider, get_provider_config
\* and save_provider_config refuse a provider name outside openrouter,
\* ollama, lmstudio, custom with an error and leave the stored configuration
\* as it was; saving the model, the base URL or the API key of one provider
\* leaves the files of the other providers and the current provider as they
\* were; and get_current_provider returns the provider of the last
\* set_current_provider that succeeded.
C30_ConfigFrame ==
    /\ [][called' # called => ConfigCall]_vars
    /\ [](called.op = "get_current_provider" /\ called.last_set # "none"
             => called.current = called.last_set)

\* lmstudio was made current, a model was saved for another provider, and
\* get_current_provider answers lmstudio
C30_Witness ==
    /\ called.n = 3
    /\ called.op = "get_current_provider"
    /\ called.last_set = "lmstudio"
    /\ called.current = "lmstudio"
    /\ config_files.providers["ollama"].exists
    /\ ~config_files.providers["lmstudio"].exists

====
